---- MODULE Spec2Model ----
(***************************************************************************)
(* Authentication and credential lifecycle of auth_microservices:          *)
(*   - otp_microservice: generation and validation of one-time codes,      *)
(*   - auth_microservice: verify-login, token validation and revocation.   *)
(*                                                                         *)
(* Granularity.  A request handler is cut at its awaits on the store: the  *)
(* Python between two awaits runs without interleaving (asyncio), a        *)
(* statement with its commit is one step.  Every request has its own       *)
(* database session and the statements are plain SELECT / UPDATE, so the   *)
(* steps of different requests interleave freely.                          *)
(*                                                                         *)
(* Names.  The revisions of the source spell some fields and keywords      *)
(* differently in caller and callee (validate_otp(user_id=..) against      *)
(* validate_otp(otp_id, ..); token_string against token_hash and jti).     *)
(* An operation is modelled from the body of its own function and a name   *)
(* is resolved by its role (first argument, verifier column, ...).         *)
(*                                                                         *)
(* Time is a discrete clock; one tick is an arbitrary span and the         *)
(* lifetimes of codes and tokens are given in ticks.                       *)
(***************************************************************************)
EXTENDS Integers, Sequences, FiniteSets, TLC

(***************************************************************************)
(* Bounds of the model.                                                    *)
(***************************************************************************)
MaxTime == 3            \* the clock runs over 0..MaxTime
ExpiresInTicks == 2     \* expires_in_minutes = 5, in ticks
MaxOtps == 1            \* OTP rows that generate may create
NumCalls == 2           \* validate requests that may be in flight together
MaxLogins == 1          \* verify-login requests that may issue tokens
AccessTtl == 1          \* access_token_expire_minutes = 30, in ticks
RefreshTtl == 2         \* refresh_token_expire_days = 7, in ticks
MaxRefreshes == 1       \* refresh requests that may issue an access token
MaxVerified == 2        \* verify-login requests that may open a session
MaxGenerated == 2       \* OTP rows that repeated generate requests may create

(***************************************************************************)
(* Program constants.                                                      *)
(***************************************************************************)
MaxAttempts == 3        \* max_attempts passed by generate

Min(a, b) == IF a < b THEN a ELSE b

\* uuid4 values: one space of identifiers, told apart by what they name.
Uuid(kind, i) == <<kind, i>>
OtpIds == {Uuid("otp", i) : i \in 1..MaxOtps}
UserIds == {Uuid("user", "a"), Uuid("user", "b")}
NoId == Uuid("none", 0)

Codes == {"000000", "111111"}     \* f"{secrets.randbelow(1000000):06d}"
Calls == 1..NumCalls
Null == -1                        \* a NULL timestamp

VARIABLES
    now,          \* datetime.now(UTC)
    otp_codes,    \* table siata_auth.otp_codes: otp_id -> row
    call,         \* the validate requests: position, arguments, entity, response
    obs,          \* history of the validate requests, for any interleaving
    seq,          \* history of the validate requests when made one after another
    auth_tokens,  \* table auth_tokens: id -> row
    sessions,     \* table sessions: id -> row
    held,         \* the token strings that verify-login has returned
    vlog,         \* the last verify-login request: reply of the OTP service, outcome
    vtok,         \* the last validate-token request: row read, outcome
    vref,         \* the last refresh request: what was presented, outcome
    entity,       \* an AuthToken entity that a caller of the repository holds
    lo,           \* the logout request in progress: position, token, sessions
    hist,         \* history of the token requests
    settings,     \* the OTP service's Settings
    gen,          \* the last response of POST /api/otp/generate
    login,        \* the last login request: what it was made with, outcome
    rvk,          \* the last call of the repository's revoke_token
    session_entity \* the Session entity a caller of the repository holds

otpVars == <<otp_codes, call, obs, seq>>
authVars == <<auth_tokens, sessions, held, vlog, vtok>>
tokVars == <<vref, entity, lo, hist>>
envVars == <<settings, gen, login, rvk, session_entity>>

(***************************************************************************)
(* OTP entity (otp_microservice/src/core/domain/entity.py).                *)
(***************************************************************************)
\* OTP.__init__: expires_at is always created_at + expires_in_minutes.
OTP(otp_id, user_id, code, expires_in, max_attempts, status, created_at, attempts) ==
    [otp_id |-> otp_id, user_id |-> user_id, code |-> code,
     max_attempts |-> max_attempts, status |-> status,
     created_at |-> created_at, expires_at |-> created_at + expires_in,
     attempts |-> attempts, validated_at |-> Null]

NoOtp == OTP(NoId, NoId, "", 0, 0, "none", 0, 0)

is_expired_never(otp, t) == FALSE
is_expired(otp, t) == t > otp.expires_at

is_valid_code(otp, provided_code) == otp.code = provided_code

can_attempt_validation_le(otp) == otp.attempts <= otp.max_attempts
can_attempt_validation(otp) == otp.attempts < otp.max_attempts

increment_attempts_noop(otp) == otp
increment_attempts(otp) == [otp EXCEPT !.attempts = @ + 1]

mark_as_validated(otp, t) == [otp EXCEPT !.status = "validated", !.validated_at = t]

mark_as_expired(otp) == [otp EXCEPT !.status = "expired"]

(***************************************************************************)
(* OTP repository (.../adapters/db/otp_repository.py).                     *)
(***************************************************************************)
\* An INSERT that leaves the new row alone in the table.
save_alone(otp) ==
    (otp.otp_id :>
        [user_id |-> otp.user_id, otp_code_hash |-> otp.code, status |-> otp.status,
         attempts |-> otp.attempts, max_attempts |-> otp.max_attempts,
         created_at |-> otp.created_at, expires_at |-> otp.expires_at,
         validated_at |-> otp.validated_at])

\* save: INSERT of the entity's columns.
save(otp) ==
    otp_codes @@ (otp.otp_id :>
        [user_id |-> otp.user_id, otp_code_hash |-> otp.code, status |-> otp.status,
         attempts |-> otp.attempts, max_attempts |-> otp.max_attempts,
         created_at |-> otp.created_at, expires_at |-> otp.expires_at,
         validated_at |-> otp.validated_at])

\* get_by_id: the entity is rebuilt from the row with expires_in_minutes=5, so
\* its expires_at is created_at + 5 minutes, not the stored column.
get_by_id(otp_id) ==
    IF otp_id \in DOMAIN otp_codes
    THEN LET row == otp_codes[otp_id]
         IN [OTP(otp_id, row.user_id, row.otp_code_hash, ExpiresInTicks,
                 row.max_attempts, row.status, row.created_at, row.attempts)
             EXCEPT !.validated_at = row.validated_at]
    ELSE NoOtp

\* update: UPDATE .. SET otp_code_hash, status, attempts, validated_at
\* WHERE otp_id = :otp_id, whatever the row holds by then.
update(otp) ==
    [otp_codes EXCEPT ![otp.otp_id] =
        [@ EXCEPT !.otp_code_hash = otp.code, !.status = otp.status,
                  !.attempts = otp.attempts, !.validated_at = otp.validated_at]]

\* A sweep that also takes the rows that expire at this very instant.
delete_expired_le ==
    [otp_id \in {i \in DOMAIN otp_codes : ~(otp_codes[i].expires_at <= now)} |->
        otp_codes[otp_id]]

\* delete_expired: DELETE FROM otp_codes WHERE expires_at < :now.
delete_expired ==
    [otp_id \in {i \in DOMAIN otp_codes : ~(otp_codes[i].expires_at < now)} |->
        otp_codes[otp_id]]

(***************************************************************************)
(* Responses of /otp/validate.                                             *)
(***************************************************************************)
Response(kind, user_id, remaining) ==
    [kind |-> kind, user_id |-> user_id, attempts_remaining |-> remaining]
NoResponse == Response("none", NoId, Null)

IdleCall ==
    [pc |-> "idle", otp_id |-> NoId, otp_code |-> "", otp |-> NoOtp,
     response |-> NoResponse]

InFlight(c) == call[c].pc = "fetched"

(***************************************************************************)
(* GenerateOTPUseCase.execute: a fresh id, a random code, status pending,  *)
(* attempts 0, expires_in_minutes = 5, max_attempts = 3.                   *)
(***************************************************************************)
\* uuid4() of OTP.__init__: an id that no row has, out of the ids at hand.
FreshOtpIdIn(ids) ==
    LET free == {i \in ids : Uuid("otp", i) \notin DOMAIN otp_codes}
    IN Uuid("otp", CHOOSE i \in free : \A j \in free : i <= j)

FreshOtpId == FreshOtpIdIn(1..MaxOtps)

NoCode == ""

\* Settings of the OTP service, with their defaults.
DefaultSettings == [DEV_SHOW_OTP_IN_RESPONSE |-> TRUE]

\* GenerateOTPResponse as execute builds it: otp_code=otp_code.
GenerateOTPResponse(saved_otp, otp_code) ==
    [otp_id |-> saved_otp.otp_id, expires_at |-> saved_otp.expires_at,
     otp_code |-> otp_code]

NoGenerated == [otp_id |-> NoId, expires_at |-> Null, otp_code |-> NoCode]

\* The use case with the ids that uuid4 may still draw.
GenerateOTP(ids, user_id, otp_code) ==
    /\ \E i \in ids : Uuid("otp", i) \notin DOMAIN otp_codes
    /\ LET otp == OTP(FreshOtpIdIn(ids), user_id, otp_code, ExpiresInTicks,
                      MaxAttempts, "pending", now, 0)
       IN /\ otp_codes' = save(otp)
          /\ gen' = GenerateOTPResponse(otp, otp_code)

Generate(user_id, otp_code) ==
    /\ GenerateOTP(1..MaxOtps, user_id, otp_code)
    /\ UNCHANGED <<now, call, obs, seq, authVars, tokVars, settings, login, rvk, session_entity>>

(***************************************************************************)
(* ValidateOTPUseCase.execute, first step: await get_by_id.                *)
(***************************************************************************)
ValidateFetch(c, otp_id, otp_code) ==
    /\ call[c].pc \in {"idle", "done"}
    /\ LET otp == get_by_id(otp_id)
       IN IF otp = NoOtp
          THEN \* raise OTPNotFoundException
               call' = [call EXCEPT ![c] =
                    [IdleCall EXCEPT !.pc = "done", !.otp_id = otp_id,
                                     !.otp_code = otp_code,
                                     !.response = Response("NotFound", NoId, Null)]]
          ELSE call' = [call EXCEPT ![c] =
                    [IdleCall EXCEPT !.pc = "fetched", !.otp_id = otp_id,
                                     !.otp_code = otp_code, !.otp = otp]]
    /\ UNCHANGED <<now, otp_codes>>

(***************************************************************************)
(* ValidateOTPUseCase.execute, second step: the checks on the entity that  *)
(* was read, then await update and the response.  The entity goes away     *)
(* with the request.                                                       *)
(***************************************************************************)
Finish(c, response) ==
    call' = [call EXCEPT ![c].pc = "done", ![c].response = response,
                         ![c].otp = NoOtp]

\* the request reaches otp.is_valid_code (steps 1-4 passed)
ReachesCompare(c) ==
    LET otp == call[c].otp
    IN /\ otp.status # "validated"
       /\ ~is_expired(otp, now)
       /\ can_attempt_validation(otp)

ValidateDecide(c) ==
    /\ InFlight(c)
    /\ LET otp == call[c].otp
       IN IF otp.status = "validated"
          THEN \* raise OTPAlreadyUsedException
               /\ Finish(c, Response("AlreadyUsed", NoId, Null))
               /\ UNCHANGED otp_codes
          ELSE IF is_expired(otp, now)
          THEN \* otp.mark_as_expired() on the entity only; raise OTPExpiredException
               /\ Finish(c, Response("Expired", NoId, Null))
               /\ UNCHANGED otp_codes
          ELSE IF ~can_attempt_validation(otp)
          THEN \* raise MaxAttemptsExceededException
               /\ Finish(c, Response("AttemptsExceeded", NoId, Null))
               /\ UNCHANGED otp_codes
          ELSE LET tried == increment_attempts(otp)
               IN IF is_valid_code(tried, call[c].otp_code)
                  THEN /\ otp_codes' = update(mark_as_validated(tried, now))
                       /\ Finish(c, Response("Valid", tried.user_id, Null))
                  ELSE /\ otp_codes' = update(tried)
                       /\ LET attempts_remaining == tried.max_attempts - tried.attempts
                          IN IF attempts_remaining = 0
                             THEN Finish(c, Response("AttemptsExceeded", NoId, 0))
                             ELSE Finish(c, Response("InvalidCode", NoId,
                                                     attempts_remaining))
    /\ UNCHANGED now

(***************************************************************************)
(* History of the validate requests under any interleaving.                *)
(*   obs.id[i]:   compared      requests on i that reached is_valid_code   *)
(*                validReturned some request on i has returned valid=true  *)
(*   obs.call[c]: afterValid    c was made after such a return             *)
(*                peers         requests on the same id in flight with c   *)
(*                status_ok, below_max, timing: the stored row when c was  *)
(*                made: status pending or sent, attempts < max_attempts,   *)
(*                now before / at / after the stored expires_at            *)
(***************************************************************************)
CounterCap == MaxAttempts + 1

NoObsCall ==
    [afterValid |-> FALSE, peers |-> {}, status_ok |-> FALSE, below_max |-> FALSE,
     timing |-> "none"]
NoObsId == [compared |-> 0, validReturned |-> FALSE]

Timing(row) ==
    IF now < row.expires_at THEN "before"
    ELSE IF now = row.expires_at THEN "at" ELSE "after"

ObsFetch(c, otp_id) ==
    LET peers == {d \in Calls \ {c} : InFlight(d) /\ call[d].otp_id = otp_id}
        others == [d \in Calls |->
                     [obs.call[d] EXCEPT !.peers = IF d \in peers THEN @ \cup {c}
                                                   ELSE @ \ {c}]]
    IN IF otp_id \notin DOMAIN otp_codes
       THEN obs' = [obs EXCEPT !.call = [others EXCEPT ![c] = NoObsCall]]
       ELSE LET row == otp_codes[otp_id]
            IN obs' = [obs EXCEPT !.call = [others EXCEPT ![c] =
                    [afterValid |-> obs.id[otp_id].validReturned,
                     peers |-> peers,
                     status_ok |-> row.status \in {"pending", "sent"},
                     below_max |-> row.attempts < row.max_attempts,
                     timing |-> Timing(row)]]]

ObsDecide(c) ==
    IF ReachesCompare(c)
    THEN obs' = [obs EXCEPT !.id[call[c].otp_id] =
            [compared |-> Min(@.compared + 1, CounterCap),
             validReturned |-> @.validReturned
                               \/ is_valid_code(call[c].otp, call[c].otp_code)]]
    ELSE UNCHANGED obs

(***************************************************************************)
(* History of the validate requests made one after another.                *)
(*   seq.id[i]:   made       requests made on i so far (capped)            *)
(*                allWrong   all of them presented a wrong code            *)
(*   seq.call[c]: ord        c is the ord-th request on its id             *)
(*                priorWrong all requests before c presented a wrong code  *)
(*                unexpired  now < expires_at when c ran its checks        *)
(***************************************************************************)
NoSeqCall == [ord |-> 0, priorWrong |-> FALSE, unexpired |-> FALSE]
NoSeqId == [made |-> 0, allWrong |-> TRUE]

SeqFetch(c, otp_id, otp_code) ==
    IF otp_id \notin DOMAIN otp_codes
    THEN seq' = [seq EXCEPT !.call[c] = NoSeqCall]
    ELSE seq' = [call |-> [seq.call EXCEPT ![c] =
                    [ord |-> Min(seq.id[otp_id].made + 1, CounterCap),
                     priorWrong |-> seq.id[otp_id].allWrong,
                     unexpired |-> FALSE]],
                 id |-> [seq.id EXCEPT ![otp_id] =
                    [made |-> Min(@.made + 1, CounterCap),
                     allWrong |-> @.allWrong
                                  /\ otp_codes[otp_id].otp_code_hash # otp_code]]]

SeqDecide(c) ==
    seq' = [seq EXCEPT !.call[c].unexpired =
                now < otp_codes[call[c].otp_id].expires_at]

(***************************************************************************)
(* auth_microservice.  Token strings, the JWT service, the AuthToken and   *)
(* Session entities and their repositories.                                *)
(***************************************************************************)
SecretKey == "JWT_SECRET_KEY"     \* settings.JWT_SECRET_KEY
OtherKey == "another key"         \* any key that is not the service's
Emails == {"a@siata", "b@siata", "nobody@siata"}
Logins == 1..MaxLogins
NoUser == [id |-> NoId, email |-> ""]

\* UsersServiceClient.get_user_by_email: the profile on 200, None on 404.
get_user_by_email(email) ==
    CASE email = "a@siata" -> [id |-> Uuid("user", "a"), email |-> email]
      [] email = "b@siata" -> [id |-> Uuid("user", "b"), email |-> email]
      [] OTHER -> NoUser

\* jwt.encode: a string that carries the payload and depends on the key.
encode(payload, key) == <<"jwt", payload, key>>

\* hash_token: hashlib.sha256(token).hexdigest(), injective on the tokens of
\* the model and never equal to a token string.
hash_token(token) == <<"sha256", token>>

\* What the users service holds of a user: role, permissions and team.
NoTeam == "None"

Profile(user_id) ==
    IF user_id = Uuid("user", "a")
    THEN [role |-> "ROOT", permissions |-> {"create_user", "read_user"},
          team_name |-> NoTeam]
    ELSE [role |-> "USER_SIATA", permissions |-> {"read_user"},
          team_name |-> "SIATA"]

\* What becomes of GET /api/users/{user_id}: 200, 404, or anything else
\* (another status, a timeout, no connection).
Fates == {"found", "not_found", "unavailable"}

\* UsersServiceClient.get_user_by_id: the profile on 200, None on 404,
\* UsersServiceUnavailableException otherwise.
get_user_by_id(user_id, fate) ==
    IF fate = "found" THEN [kind |-> "ok", user_data |-> Profile(user_id)]
    ELSE IF fate = "not_found" THEN [kind |-> "None"]
    ELSE [kind |-> "UsersServiceUnavailableException"]

\* JWTService.create_access_token / create_refresh_token: the token string,
\* its id (the jti claim, a fresh uuid4) and its expiry.
create_access_token(user_id, role, permissions, team_name, expires_delta, jti) ==
    [token |-> encode([jti |-> jti, sub |-> user_id, role |-> role,
                       permissions |-> permissions, team_name |-> team_name,
                       token_type |-> "access",
                       exp |-> now + expires_delta], SecretKey),
     token_id |-> jti, expires_at |-> now + expires_delta]

create_refresh_token(user_id, expires_delta, jti) ==
    [token |-> encode([jti |-> jti, sub |-> user_id, token_type |-> "refresh",
                       exp |-> now + expires_delta], SecretKey),
     token_id |-> jti, expires_at |-> now + expires_delta]

\* JWTService.decode_token.  jwt.decode raises JWTError on a foreign
\* signature and, with the library's whole-second clock, on an exp at least
\* a second old; the explicit comparison raises TokenExpiredException as
\* soon as now > exp.  A tick being an arbitrary span, both are possible
\* once now > exp.
decode_token(token, t) ==
    IF token[3] # SecretKey
    THEN {[kind |-> "Invalid", reason |-> "JWTError"]}
    ELSE IF t > token[2].exp
         THEN {[kind |-> "Expired", reason |-> "Token has expired"],
               [kind |-> "Invalid", reason |-> "JWTError"]}
         ELSE {[kind |-> "ok", reason |-> ""]}

\* The TokenPayload that decode_token builds of a decoded payload: a refresh
\* token carries no role, permissions or team, and gets the empty ones.
TokenPayload(payload) ==
    IF payload.token_type = "refresh"
    THEN [role |-> "", permissions |-> {}, team_name |-> NoTeam] @@ payload
    ELSE payload

\* is_access_token that takes a token of either kind for an access token.
is_access_token_any(token_payload) == TRUE

\* TokenPayload.is_access_token
is_access_token(token_payload) == token_payload.token_type = "access"

\* validate_jti_format: the uuid pattern; every jti of the model is a uuid4.
validate_jti_format(jti) == jti # NoId

\* AuthToken.__init__, as verify-login calls it: the verifier of the row is
\* the token_string argument and the row's jti is the token id.
AuthToken(token_id, user_id, token_type, token_string, expires_at) ==
    [id |-> token_id, user_id |-> user_id, token_type |-> token_type,
     token_hash |-> token_string, jti |-> token_id, expires_at |-> expires_at,
     revoked |-> FALSE, revoked_at |-> Null]

NoToken == AuthToken(NoId, NoId, "none", <<"none">>, 0)

\* AuthToken.revoked, reading the flag as always clear.
revoked_never(token_entity) == FALSE

\* AuthToken.revoked
revoked(token_entity) == token_entity.revoked

\* AuthToken.is_expired
AuthToken_is_expired(token_entity, t) == t > token_entity.expires_at

\* AuthToken.is_valid
AuthToken_is_valid(token_entity, t) ==
    ~AuthToken_is_expired(token_entity, t) /\ ~token_entity.revoked

\* A save that leaves the saved row alone in the table.
save_token_alone(tokens, token) == (token.id :> [token EXCEPT !.revoked_at = Null])

\* AuthTokenRepository.save.  A row of that id exists: its verifier, jti,
\* expiry and revoked flag are overwritten from the entity, and revoked_at is
\* set when the entity is revoked.  No such row: one is inserted.
save_token(tokens, token) ==
    IF token.id \in DOMAIN tokens
    THEN [tokens EXCEPT ![token.id] =
             [@ EXCEPT !.token_hash = token.token_hash, !.jti = token.jti,
                       !.expires_at = token.expires_at,
                       !.revoked = token.revoked,
                       !.revoked_at = IF token.revoked THEN now ELSE @]]
    ELSE (token.id :> [token EXCEPT !.revoked_at = Null]) @@ tokens

\* AuthTokenRepository.get_by_id
get_token_by_id(token_id) ==
    IF token_id \in DOMAIN auth_tokens THEN auth_tokens[token_id] ELSE NoToken

\* AuthToken.revoke
revoke(token_entity) == [token_entity EXCEPT !.revoked = TRUE]

\* AuthTokenRepository.get_by_jti
get_by_jti(jti) ==
    IF \E id \in DOMAIN auth_tokens : auth_tokens[id].jti = jti
    THEN auth_tokens[CHOOSE id \in DOMAIN auth_tokens : auth_tokens[id].jti = jti]
    ELSE NoToken

\* The lookup logout makes: the row whose verifier is the presented string.
get_by_token_string(token_string) ==
    IF \E id \in DOMAIN auth_tokens : auth_tokens[id].token_hash = token_string
    THEN auth_tokens[CHOOSE id \in DOMAIN auth_tokens :
                        auth_tokens[id].token_hash = token_string]
    ELSE NoToken

\* revoke_token with an UPDATE that matches no row.
revoke_token_none(token_id) == auth_tokens

\* AuthTokenRepository.revoke_token: UPDATE ... WHERE id = token_id.
revoke_token(token_id) ==
    [id \in DOMAIN auth_tokens |->
        IF id = token_id
        THEN [auth_tokens[id] EXCEPT !.revoked = TRUE, !.revoked_at = now]
        ELSE auth_tokens[id]]

\* What is kept of a call of revoke_token: the id it was given, the row of
\* that id before the call, and what it returned.
NoRevoke == [called |-> FALSE, token_id |-> NoId, before |-> NoToken,
             returned |-> FALSE]

\* A call of revoke_token by itself: the UPDATE, then rowcount > 0.
RevokeToken(token_id) ==
    /\ auth_tokens' = revoke_token(token_id)
    /\ rvk' = [called |-> TRUE, token_id |-> token_id,
               before |-> get_token_by_id(token_id),
               returned |-> token_id \in DOMAIN auth_tokens]
    /\ UNCHANGED <<sessions, held, vlog, vtok, tokVars>>

\* revoke_all_user_tokens with an UPDATE that matches no row.
revoke_all_user_tokens_none(user_id) == auth_tokens

\* AuthTokenRepository.revoke_all_user_tokens: UPDATE ... WHERE user_id =
\* user_id AND revoked = false.
revoke_all_user_tokens(user_id) ==
    [id \in DOMAIN auth_tokens |->
        IF auth_tokens[id].user_id = user_id /\ ~auth_tokens[id].revoked
        THEN [auth_tokens[id] EXCEPT !.revoked = TRUE, !.revoked_at = now]
        ELSE auth_tokens[id]]

\* Session.__init__
Session(session_id, user_id, access_token_id, expires_at) ==
    [id |-> session_id, user_id |-> user_id, access_token_id |-> access_token_id,
     last_activity |-> now, expires_at |-> expires_at, active |-> TRUE,
     ended_at |-> Null]

NoSession == [id |-> NoId, user_id |-> NoId, access_token_id |-> NoId,
              last_activity |-> Null, expires_at |-> Null, active |-> FALSE,
              ended_at |-> Null]

\* Session.is_expired, Session.is_valid
Session_is_expired(session, t) == t > session.expires_at
Session_is_valid(session, t) == session.active /\ ~Session_is_expired(session, t)

\* Session.update_activity, Session.end_session
update_activity(session) == [session EXCEPT !.last_activity = now]
Session_end_session(session) == [session EXCEPT !.active = FALSE]

\* A save that writes nothing.
save_session_none(session) == sessions

\* SessionRepository.save.  A row of that id exists: last_activity,
\* expires_at and active are overwritten from the entity, and ended_at is
\* set when the entity is not active.  No such row: one is inserted.
save_session(session) ==
    IF session.id \in DOMAIN sessions
    THEN [sessions EXCEPT ![session.id] =
             [@ EXCEPT !.last_activity = session.last_activity,
                       !.expires_at = session.expires_at,
                       !.active = session.active,
                       !.ended_at = IF ~session.active THEN now ELSE @]]
    ELSE (session.id :> [session EXCEPT !.ended_at = Null]) @@ sessions

\* SessionRepository.get_by_id
get_session_by_id(session_id) ==
    IF session_id \in DOMAIN sessions THEN sessions[session_id] ELSE NoSession

\* SessionRepository.end_all_user_sessions: UPDATE ... WHERE user_id = user_id
\* AND active.
end_all_user_sessions(user_id) ==
    [s \in DOMAIN sessions |->
        IF sessions[s].user_id = user_id /\ sessions[s].active
        THEN [sessions[s] EXCEPT !.active = FALSE, !.ended_at = now]
        ELSE sessions[s]]

\* SessionRepository.end_session on every active session of the user that
\* was opened with the token.
end_sessions_of_token(user_id, token_id) ==
    [s \in DOMAIN sessions |->
        IF /\ sessions[s].user_id = user_id
           /\ sessions[s].active
           /\ sessions[s].access_token_id = token_id
        THEN [sessions[s] EXCEPT !.active = FALSE, !.ended_at = now]
        ELSE sessions[s]]

(***************************************************************************)
(* OTPServiceClient.validate_otp.  The status codes with which the OTP     *)
(* service can answer POST /api/otp/validate for an id: 404 when no row    *)
(* has that id (OTPNotFoundException), else 200 or the code of one of the  *)
(* other OTP exceptions.  The client returns the body on 200 and the dict  *)
(* {"valid": False, "message": ...} on every other status.                 *)
(***************************************************************************)
OtpStatusCodes(otp_id) ==
    IF get_by_id(otp_id) = NoOtp THEN {404} ELSE {200, 400, 429}

validate_otp(status_code) ==
    IF status_code = 200
    THEN [valid |-> TRUE, message |-> "OTP validated successfully"]
    ELSE [valid |-> FALSE, message |-> "Invalid or expired OTP"]

\* bool(x) of a dict: false only for the empty dict.
bool(dict) == DOMAIN dict # {}

\* What create_access_token and create_refresh_token return, before a
\* request has called them.
NoCreated == [token |-> <<"none">>, token_id |-> NoId, expires_at |-> 0]

\* A verify-login request: its outcome, and while it is under way where it
\* stands (pc), the user it found, the tokens it created, the number drawn
\* for their ids and the records it has written.
NoLogin == [outcome |-> "none", replied |-> FALSE, valid |-> FALSE,
            created |-> FALSE, issued |-> NoId, pc |-> "idle",
            user_id |-> NoId, k |-> 0, access |-> NoCreated,
            refresh |-> NoCreated, wrote |-> {}]

(***************************************************************************)
(* VerifyLoginUseCase.execute.  The id sent to the OTP service is the id   *)
(* of the user found by email.                                             *)
(***************************************************************************)
VerifyLoginWith(ids, email, otp_code, reachable, status_code) ==
    LET user_data == get_user_by_email(email)
    IN IF user_data = NoUser
       THEN \* raise InvalidOTPException("Invalid OTP or email")
            /\ vlog' = [NoLogin EXCEPT !.outcome = "InvalidOTPException"]
            /\ UNCHANGED <<auth_tokens, sessions, held>>
       ELSE IF ~reachable
       THEN \* validate_otp raises OTPServiceUnavailableException
            /\ vlog' = [NoLogin EXCEPT !.outcome = "OTPServiceUnavailableException"]
            /\ UNCHANGED <<auth_tokens, sessions, held>>
       ELSE
         /\ status_code \in OtpStatusCodes(user_data.id)
         /\ LET otp_valid == validate_otp(status_code)
            IN IF ~bool(otp_valid)
               THEN \* raise InvalidOTPException("Invalid or expired OTP code")
                    /\ vlog' = [NoLogin EXCEPT !.outcome = "InvalidOTPException",
                                               !.replied = TRUE,
                                               !.valid = otp_valid.valid]
                    /\ UNCHANGED <<auth_tokens, sessions, held>>
               ELSE
                 /\ \E k \in ids : Uuid("access", k) \notin DOMAIN auth_tokens
                 /\ LET k == CHOOSE k \in ids :
                                /\ Uuid("access", k) \notin DOMAIN auth_tokens
                                /\ \A j \in ids :
                                     Uuid("access", j) \notin DOMAIN auth_tokens => k <= j
                        access == create_access_token(user_data.id,
                                      Profile(user_data.id).role,
                                      Profile(user_data.id).permissions,
                                      Profile(user_data.id).team_name,
                                      AccessTtl, Uuid("access", k))
                        refresh == create_refresh_token(user_data.id, RefreshTtl,
                                                        Uuid("refresh", k))
                        access_token_entity ==
                            AuthToken(access.token_id, user_data.id, "access",
                                      access.token, access.expires_at)
                        refresh_token_entity ==
                            AuthToken(refresh.token_id, user_data.id, "refresh",
                                      refresh.token, refresh.expires_at)
                        session == Session(Uuid("session", k), user_data.id,
                                           access.token_id, access.expires_at)
                    IN /\ auth_tokens' = save_token(save_token(auth_tokens,
                                             access_token_entity), refresh_token_entity)
                       /\ sessions' = save_session(session)
                       /\ held' = held \cup {access.token, refresh.token}
                       /\ vlog' = [NoLogin EXCEPT !.outcome = "LoginResponse",
                                                  !.replied = TRUE,
                                                  !.valid = otp_valid.valid,
                                                  !.created = TRUE,
                                                  !.issued = access.token_id]

(***************************************************************************)
(* VerifyLoginUseCase.execute step by step: steps 1 to 5 answer or create  *)
(* the tokens, steps 6, 7 and 8 are three saves, each committed by its     *)
(* repository on its own, each of which may fail and end the request.      *)
(***************************************************************************)
VerifyBegin(ids, email, otp_code, reachable, status_code) ==
    LET user_data == get_user_by_email(email)
    IN /\ vlog.pc \in {"idle", "done"}
       /\ UNCHANGED <<auth_tokens, sessions, held>>
       /\ IF user_data = NoUser
          THEN vlog' = [NoLogin EXCEPT !.outcome = "InvalidOTPException",
                                       !.pc = "done"]
          ELSE IF ~reachable
          THEN vlog' = [NoLogin EXCEPT !.outcome = "OTPServiceUnavailableException",
                                       !.pc = "done"]
          ELSE
            /\ status_code \in OtpStatusCodes(user_data.id)
            /\ LET otp_valid == validate_otp(status_code)
               IN IF ~bool(otp_valid)
                  THEN vlog' = [NoLogin EXCEPT !.outcome = "InvalidOTPException",
                                               !.replied = TRUE,
                                               !.valid = otp_valid.valid,
                                               !.pc = "done"]
                  ELSE
                    /\ \E k \in ids : Uuid("access", k) \notin DOMAIN auth_tokens
                    /\ LET k == CHOOSE k \in ids :
                                   /\ Uuid("access", k) \notin DOMAIN auth_tokens
                                   /\ \A j \in ids :
                                        Uuid("access", j) \notin DOMAIN auth_tokens
                                           => k <= j
                       IN vlog' = [NoLogin EXCEPT
                              !.replied = TRUE, !.valid = otp_valid.valid,
                              !.user_id = user_data.id, !.k = k,
                              !.access = create_access_token(user_data.id,
                                             Profile(user_data.id).role,
                                             Profile(user_data.id).permissions,
                                             Profile(user_data.id).team_name,
                                             AccessTtl, Uuid("access", k)),
                              !.refresh = create_refresh_token(user_data.id,
                                              RefreshTtl, Uuid("refresh", k)),
                              !.pc = "save_access"]

\* A save of verify-login that raised: the request ends with the exception.
VerifyFailed == [vlog EXCEPT !.outcome = "Exception", !.pc = "done"]

\* Step 6: save of the access token.
VerifySaveAccess(ok) ==
    /\ vlog.pc = "save_access"
    /\ IF ok
       THEN /\ auth_tokens' = save_token(auth_tokens,
                   AuthToken(vlog.access.token_id, vlog.user_id, "access",
                             vlog.access.token, vlog.access.expires_at))
            /\ vlog' = [vlog EXCEPT !.pc = "save_refresh",
                                    !.wrote = @ \cup {"access"}]
       ELSE /\ vlog' = VerifyFailed
            /\ UNCHANGED auth_tokens
    /\ UNCHANGED <<sessions, held>>

\* Step 7: save of the refresh token.
VerifySaveRefresh(ok) ==
    /\ vlog.pc = "save_refresh"
    /\ IF ok
       THEN /\ auth_tokens' = save_token(auth_tokens,
                   AuthToken(vlog.refresh.token_id, vlog.user_id, "refresh",
                             vlog.refresh.token, vlog.refresh.expires_at))
            /\ vlog' = [vlog EXCEPT !.pc = "save_session",
                                    !.wrote = @ \cup {"refresh"}]
       ELSE /\ vlog' = VerifyFailed
            /\ UNCHANGED auth_tokens
    /\ UNCHANGED <<sessions, held>>

\* Steps 8 and 9: save of the session, then the LoginResponse.
VerifySaveSession(ok) ==
    /\ vlog.pc = "save_session"
    /\ IF ok
       THEN /\ sessions' = save_session(Session(Uuid("session", vlog.k),
                               vlog.user_id, vlog.access.token_id,
                               vlog.access.expires_at))
            /\ held' = held \cup {vlog.access.token, vlog.refresh.token}
            /\ vlog' = [vlog EXCEPT !.outcome = "LoginResponse", !.pc = "done",
                                    !.created = TRUE,
                                    !.issued = vlog.access.token_id,
                                    !.wrote = @ \cup {"session"}]
       ELSE /\ vlog' = VerifyFailed
            /\ UNCHANGED <<sessions, held>>
    /\ UNCHANGED auth_tokens

VerifyLogin(email, otp_code, reachable, status_code) ==
    VerifyLoginWith(Logins, email, otp_code, reachable, status_code)

(***************************************************************************)
(* ValidateTokenUseCase.execute.  Steps 2 to 7, on a token that decoded,   *)
(* against the row that get_by_jti returned.                               *)
(***************************************************************************)
\* The steps with a step 7 that compares the stored verifier with the token
\* string itself.
ValidateTokenSteps_string(token, token_entity, t) ==
    LET token_payload == token[2]
    IN IF ~is_access_token(token_payload)
       THEN [kind |-> "Invalid", reason |-> "Provided token is not an access token"]
       ELSE IF ~validate_jti_format(token_payload.jti)
       THEN [kind |-> "Invalid", reason |-> "Token missing valid JWT ID"]
       ELSE IF token_entity = NoToken
       THEN [kind |-> "Invalid", reason |-> "Token not found in database"]
       ELSE IF revoked(token_entity)
       THEN [kind |-> "Invalid", reason |-> "Token has been revoked"]
       ELSE IF token_entity.expires_at < t
       THEN [kind |-> "Expired", reason |-> "Token has expired"]
       ELSE IF token_entity.token_hash # token
       THEN [kind |-> "Invalid", reason |-> "Token hash verification failed"]
       ELSE [kind |-> "ok", reason |-> ""]

ValidateTokenSteps(token, token_entity, t) ==
    LET token_payload == token[2]
    IN IF ~is_access_token(token_payload)
       THEN [kind |-> "Invalid", reason |-> "Provided token is not an access token"]
       ELSE IF ~validate_jti_format(token_payload.jti)
       THEN [kind |-> "Invalid", reason |-> "Token missing valid JWT ID"]
       ELSE IF token_entity = NoToken
       THEN [kind |-> "Invalid", reason |-> "Token not found in database"]
       ELSE IF revoked(token_entity)
       THEN [kind |-> "Invalid", reason |-> "Token has been revoked"]
       ELSE IF token_entity.expires_at < t
       THEN [kind |-> "Expired", reason |-> "Token has expired"]
       ELSE IF token_entity.token_hash # hash_token(token)
       THEN [kind |-> "Invalid", reason |-> "Token hash verification failed"]
       ELSE [kind |-> "ok", reason |-> ""]

\* The token strings a client can present: those the service returned, and
\* the same payloads signed with another key.
Presentable == held \cup {encode(token[2], OtherKey) : token \in held}

\* What is kept of a validate-token request: its outcome, the revoked flag of
\* the row it read, and whether the embedded and the stored expiry were both
\* still ahead.
Validation(result, token, token_entity) ==
    [kind |-> result.kind, reason |-> result.reason,
     revoked |-> token_entity.revoked,
     live |-> now < token[2].exp /\ now < token_entity.expires_at]

NoValidation == [kind |-> "none", reason |-> "", revoked |-> FALSE, live |-> FALSE]

ValidateToken(token) ==
    /\ \E decoded \in decode_token(token, now) :
          IF decoded.kind # "ok"
          THEN vtok' = Validation(decoded, token, NoToken)
          ELSE LET token_entity == IF is_access_token(token[2])
                                      /\ validate_jti_format(token[2].jti)
                                   THEN get_by_jti(token[2].jti)
                                   ELSE NoToken
                   result == ValidateTokenSteps(token, token_entity, now)
               IN vtok' = Validation(result, token, token_entity)
    /\ UNCHANGED <<auth_tokens, sessions, held, vlog>>

(***************************************************************************)
(* LoginInitUseCase.execute, with the services it calls.  A login request  *)
(* is made with an email, a password that is or is not the account's, the  *)
(* status of the account in the users service, and what becomes of the     *)
(* call to JANO: it allows, it blocks, it times out, it cannot be reached, *)
(* or it answers with an error status.                                     *)
(***************************************************************************)
JanoReplies == {"allow", "block", "timeout", "unreachable", "error"}
AccountStatuses == {"active", "inactive"}

\* The two exceptions of the rate limit check.  The use case and the client
\* import them from src.domain.exceptions, which declares neither; they are
\* taken as the specification has them: RateLimited is the 429 of an abuse
\* block, and the unavailability of the policy engine is an error that the
\* use case's `except Exception` catches.
RateLimitExceededException ==
    [outcome |-> "RateLimitExceededException", status_code |-> 429]

JANOServiceUnavailableException ==
    [kind |-> "JANOServiceUnavailableException", is_exception |-> TRUE]

\* validate_request failing closed: no reply counts as a block.
validate_request_closed(jano) ==
    IF jano = "allow"
    THEN [kind |-> "ok", should_block |-> FALSE]
    ELSE [kind |-> "ok", should_block |-> TRUE]

\* JANOServiceClient.validate_request: the body on 200,
\* JANOServiceUnavailableException on everything else.
validate_request(jano) ==
    IF jano \in {"allow", "block"}
    THEN [kind |-> "ok", should_block |-> jano = "block"]
    ELSE [kind |-> JANOServiceUnavailableException.kind, should_block |-> FALSE]

\* ValidateCredentialsByEmailUseCase.execute of the users service.
ValidateCredentialsByEmail(email, password_ok, status) ==
    IF get_user_by_email(email) = NoUser
    THEN [kind |-> "InvalidCredentialsException",
          message |-> "Invalid email or password"]
    ELSE IF status # "active"
    THEN [kind |-> "InvalidCredentialsException",
          message |-> "User account is disabled"]
    ELSE IF ~password_ok
    THEN [kind |-> "InvalidCredentialsException",
          message |-> "Invalid email or password"]
    ELSE [kind |-> "ok", message |-> ""]

\* POST /api/users/validate-credentials-email: 401 is answered for a result
\* of None only; an exception of the use case is not an HTTPException and
\* becomes the 500 of the handler's last except clause.
validate_credentials_email_status(result) ==
    IF result.kind = "ok" THEN 200 ELSE 500

\* UsersServiceClient.validate_credentials_by_email: the profile on 200,
\* None on 401, UsersServiceUnavailableException on any other status.
validate_credentials_by_email(email, password_ok, status) ==
    LET status_code == validate_credentials_email_status(
                           ValidateCredentialsByEmail(email, password_ok, status))
    IN IF status_code = 200
       THEN [kind |-> "ok", user_data |-> get_user_by_email(email), details |-> ""]
       ELSE IF status_code = 401
       THEN [kind |-> "None", user_data |-> NoUser, details |-> ""]
       ELSE [kind |-> "UsersServiceUnavailableException", user_data |-> NoUser,
             details |-> "Unexpected response"]

\* What the caller of login gets, the OTP apart: the exception raised, or
\* the LoginInitResponse.
LoginOutcome(email, password_ok, status, jano) ==
    LET rate_limit_result == validate_request(jano)
        user_data == validate_credentials_by_email(email, password_ok, status)
    IN IF rate_limit_result.kind = "ok" /\ rate_limit_result.should_block
       THEN [outcome |-> RateLimitExceededException.outcome,
             message |-> "", details |-> "Too many login attempts from IP"]
       ELSE IF /\ rate_limit_result.kind # "ok"
               /\ ~JANOServiceUnavailableException.is_exception
       THEN [outcome |-> rate_limit_result.kind, message |-> "", details |-> ""]
       ELSE IF user_data.kind = "UsersServiceUnavailableException"
       THEN [outcome |-> "UsersServiceUnavailableException",
             message |-> "Users service unavailable", details |-> user_data.details]
       ELSE IF user_data.kind = "None"
       THEN [outcome |-> "InvalidCredentialsException",
             message |-> "Invalid credentials",
             details |-> "Invalid email or password"]
       ELSE [outcome |-> "LoginInitResponse",
             message |-> "OTP sent to your email", details |-> ""]

NoLoginInit ==
    [outcome |-> "none", message |-> "", details |-> "", otp_id |-> NoId,
     otp_code |-> NoCode, email |-> "", password_ok |-> FALSE,
     status |-> "none", jano |-> "none", generated |-> FALSE]

LoginInit(email, password_ok, status, jano, otp_code) ==
    LET result == LoginOutcome(email, password_ok, status, jano)
        made == [NoLoginInit EXCEPT !.outcome = result.outcome,
                                    !.message = result.message,
                                    !.details = result.details,
                                    !.email = email, !.password_ok = password_ok,
                                    !.status = status, !.jano = jano]
    IN /\ IF result.outcome = "LoginInitResponse"
          THEN /\ GenerateOTP(1..MaxOtps, get_user_by_email(email).id, otp_code)
               /\ login' = [made EXCEPT !.otp_id = gen'.otp_id,
                                        !.otp_code = gen'.otp_code,
                                        !.generated = TRUE]
          ELSE /\ UNCHANGED <<otp_codes, gen>>
               /\ login' = [made EXCEPT !.generated = otp_codes' # otp_codes]
       /\ UNCHANGED <<now, call, obs, seq, authVars, tokVars, settings, rvk, session_entity>>

(***************************************************************************)
(* LogoutUseCase.execute, for the user named in the presented token.       *)
(***************************************************************************)
Logout(access_token_string) ==
    LET current_user == access_token_string[2]
        token_entity == get_by_token_string(access_token_string)
    IN /\ IF token_entity # NoToken
          THEN /\ auth_tokens' = revoke_token(token_entity.id)
               /\ sessions' = end_sessions_of_token(current_user.sub, token_entity.id)
          ELSE UNCHANGED <<auth_tokens, sessions>>
       /\ UNCHANGED <<held, vlog, vtok>>

(***************************************************************************)
(* AuthService.revoke_user_tokens                                          *)
(***************************************************************************)
RevokeUserTokens(user_id) ==
    /\ auth_tokens' = revoke_all_user_tokens(user_id)
    /\ UNCHANGED <<sessions, held, vlog, vtok>>

(***************************************************************************)
(* RefreshTokenUseCase.execute.  Steps 2 and 3, on a token that decoded,   *)
(* against the row that get_by_jti returned.                               *)
(***************************************************************************)
\* TokenPayload.is_refresh_token, answering yes for every kind.
is_refresh_token_any(token_payload) == TRUE

\* TokenPayload.is_refresh_token
is_refresh_token(token_payload) == token_payload.token_type = "refresh"

RefreshSteps(refresh_token, refresh_token_entity) ==
    LET token_payload == refresh_token[2]
    IN IF ~is_refresh_token(token_payload)
       THEN [kind |-> "InvalidRefreshTokenException",
             reason |-> "Provided token is not a refresh token"]
       ELSE IF ~validate_jti_format(token_payload.jti)
       THEN [kind |-> "InvalidRefreshTokenException",
             reason |-> "Refresh token missing valid JWT ID"]
       ELSE IF refresh_token_entity = NoToken
       THEN [kind |-> "InvalidRefreshTokenException",
             reason |-> "Refresh token not found"]
       ELSE IF revoked(refresh_token_entity)
       THEN [kind |-> "InvalidRefreshTokenException",
             reason |-> "Refresh token has been revoked"]
       ELSE IF refresh_token_entity.token_hash # hash_token(refresh_token)
       THEN [kind |-> "InvalidRefreshTokenException",
             reason |-> "Refresh token verification failed"]
       ELSE [kind |-> "ok", reason |-> ""]

\* Step 1 of refresh: TokenExpiredException is re-raised, InvalidTokenException
\* becomes InvalidRefreshTokenException.
RefreshDecode(decoded) ==
    IF decoded.kind = "Expired"
    THEN [kind |-> "TokenExpiredException", reason |-> decoded.reason]
    ELSE [kind |-> "InvalidRefreshTokenException", reason |-> "Invalid refresh token"]

\* What is kept of a refresh request: its outcome, what was presented (kind,
\* whether it decoded), what the store held for its jti, and whether the
\* request changed the token store, the session store or the tokens handed out.
NoRefresh == [kind |-> "none", reason |-> "", decoded |-> FALSE,
              token_type |-> "none", row |-> "none", wrote |-> FALSE,
              returned |-> <<"none">>, minted |-> NoId, lookup |-> "none",
              pc |-> "idle", presented |-> <<"none">>]

RowState(token, token_entity) ==
    IF token_entity = NoToken THEN "absent"
    ELSE IF token_entity.revoked THEN "revoked"
    ELSE IF token_entity.token_hash # hash_token(token) THEN "mismatch"
    ELSE "match"

Refreshes == 1..MaxRefreshes

\* A refresh that makes the save of step 7 whatever the result.
RefreshStore_always(result, access_token_entity) ==
    save_token(auth_tokens, access_token_entity)

\* The store after a refresh request with the given result: the save of step
\* 7 is reached only when no step before it raised.
RefreshStore(result, access_token_entity) ==
    IF result.kind = "ok" THEN save_token(auth_tokens, access_token_entity)
    ELSE auth_tokens

\* Steps 4 and 5 of refresh, with the profile lookup that went wrong taken
\* for one that answered.
RefreshClaims_fresh(user_data, token_payload) ==
    Profile(token_payload.sub)

\* Steps 4 and 5 of refresh: role, permissions and team of the new access
\* token are those of the profile when the lookup returned one, those of the
\* decoded refresh token when it returned None or raised.
RefreshClaims(user_data, token_payload) ==
    IF user_data.kind = "ok"
    THEN user_data.user_data
    ELSE [role |-> token_payload.role, permissions |-> token_payload.permissions,
          team_name |-> token_payload.team_name]

\* The use case with what becomes of its profile lookup.
RefreshWith(refresh_token, fate) ==
    \E decoded \in decode_token(refresh_token, now) :
       LET token_payload == TokenPayload(refresh_token[2])
           claims == RefreshClaims(get_user_by_id(token_payload.sub, fate),
                                   token_payload)
           refresh_token_entity ==
               IF decoded.kind = "ok" /\ is_refresh_token(token_payload)
                  /\ validate_jti_format(token_payload.jti)
               THEN get_by_jti(token_payload.jti)
               ELSE NoToken
           result == IF decoded.kind # "ok" THEN RefreshDecode(decoded)
                     ELSE RefreshSteps(refresh_token, refresh_token_entity)
           free == {k \in Refreshes : Uuid("refreshed", k) \notin DOMAIN auth_tokens}
           jti == IF free = {} THEN NoId
                  ELSE Uuid("refreshed", CHOOSE k \in free : \A j \in free : k <= j)
           access == create_access_token(token_payload.sub, claims.role,
                                         claims.permissions, claims.team_name,
                                         AccessTtl, jti)
           access_token_entity ==
               AuthToken(access.token_id, token_payload.sub, "access",
                         hash_token(access.token), now + AccessTtl)
       IN /\ result.kind = "ok" => free # {}
          /\ auth_tokens' = RefreshStore(result, access_token_entity)
          /\ held' = IF result.kind = "ok" THEN held \cup {access.token} ELSE held
          /\ vref' = [kind |-> result.kind, reason |-> result.reason,
                      decoded |-> decoded.kind = "ok",
                      token_type |-> token_payload.token_type,
                      row |-> IF decoded.kind = "ok"
                              THEN RowState(refresh_token,
                                            get_by_jti(token_payload.jti))
                              ELSE "none",
                      wrote |-> auth_tokens' # auth_tokens \/ held' # held,
                      returned |-> IF result.kind = "ok" THEN refresh_token
                                   ELSE <<"none">>,
                      minted |-> IF result.kind = "ok" THEN access.token_id
                                 ELSE NoId,
                      lookup |-> fate, pc |-> "idle",
                      presented |-> <<"none">>]
          /\ UNCHANGED <<sessions, vlog, vtok>>

Refresh(refresh_token) == RefreshWith(refresh_token, "found")

(***************************************************************************)
(* RefreshTokenUseCase.execute in the two parts that its awaits separate:  *)
(* steps 1 to 3 read the row of the refresh token and check it; the        *)
(* profile lookup of step 4 is a call to another service, during which     *)
(* other requests run; steps 5 to 7 create the access token and save it    *)
(* without reading the refresh token's row again.                          *)
(***************************************************************************)
RefreshCheck(refresh_token) ==
    /\ vref.pc \in {"idle", "done"}
    /\ \E decoded \in decode_token(refresh_token, now) :
          LET token_payload == TokenPayload(refresh_token[2])
              refresh_token_entity ==
                  IF decoded.kind = "ok" /\ is_refresh_token(token_payload)
                     /\ validate_jti_format(token_payload.jti)
                  THEN get_by_jti(token_payload.jti)
                  ELSE NoToken
              result == IF decoded.kind # "ok" THEN RefreshDecode(decoded)
                        ELSE RefreshSteps(refresh_token, refresh_token_entity)
          IN vref' = [NoRefresh EXCEPT
                 !.kind = IF result.kind = "ok" THEN "none" ELSE result.kind,
                 !.reason = result.reason,
                 !.decoded = decoded.kind = "ok",
                 !.token_type = token_payload.token_type,
                 !.row = IF decoded.kind = "ok"
                         THEN RowState(refresh_token, get_by_jti(token_payload.jti))
                         ELSE "none",
                 !.pc = IF result.kind = "ok" THEN "checked" ELSE "done",
                 !.presented = IF result.kind = "ok" THEN refresh_token
                               ELSE <<"none">>]
    /\ UNCHANGED <<auth_tokens, sessions, held, vlog, vtok>>

RefreshFinish(fate) ==
    /\ vref.pc = "checked"
    /\ LET token_payload == TokenPayload(vref.presented[2])
           claims == RefreshClaims(get_user_by_id(token_payload.sub, fate),
                                   token_payload)
           free == {k \in Refreshes : Uuid("refreshed", k) \notin DOMAIN auth_tokens}
           jti == Uuid("refreshed", CHOOSE k \in free : \A j \in free : k <= j)
           access == create_access_token(token_payload.sub, claims.role,
                                         claims.permissions, claims.team_name,
                                         AccessTtl, jti)
           access_token_entity ==
               AuthToken(access.token_id, token_payload.sub, "access",
                         hash_token(access.token), now + AccessTtl)
       IN /\ free # {}
          /\ auth_tokens' = save_token(auth_tokens, access_token_entity)
          /\ held' = held \cup {access.token}
          /\ vref' = [vref EXCEPT !.kind = "ok", !.wrote = TRUE,
                                  !.returned = vref.presented,
                                  !.minted = access.token_id,
                                  !.lookup = fate, !.pc = "done"]
    /\ UNCHANGED <<sessions, vlog, vtok>>

(***************************************************************************)
(* History of the token requests: the tokens that a completed              *)
(* revoke_user_tokens call found issued to its user, and, for the last     *)
(* validate-token request, what held of the presented token when it was    *)
(* made.                                                                   *)
(***************************************************************************)
NoFacts == [covered |-> FALSE, origin |-> "none", signed |-> FALSE,
            unexpired |-> FALSE, access |-> FALSE, jti_ok |-> FALSE,
            found |-> FALSE, not_revoked |-> FALSE, stored_unexpired |-> FALSE,
            verifier_ok |-> FALSE, sub_ok |-> FALSE, loggedout |-> FALSE,
            jti |-> NoId, sub |-> NoId]

\* Of the last verify-login request: the user of its email, whether the OTP
\* service answered it while an OTP generated for that user was pending,
\* unexpired and untried with the presented code, and whether it issued
\* tokens.
NoScenario == [user_id |-> NoId, scenario |-> FALSE, created |-> FALSE]

NoHist == [covered |-> {}, v |-> NoFacts, login |-> NoScenario, out |-> {},
           minted |-> {}, swept |-> {}, flagged |-> {}, presented |-> NoId,
           after_logout |-> FALSE]

HistLogin(email, otp_code) ==
    LET user_data == get_user_by_email(email)
    IN hist' = [hist EXCEPT !.login =
           [user_id |-> user_data.id,
            scenario |->
                /\ user_data # NoUser
                /\ vlog'.replied
                /\ \E otp_id \in DOMAIN otp_codes :
                      LET otp == get_by_id(otp_id)
                      IN /\ otp.user_id = user_data.id
                         /\ otp.status = "pending"
                         /\ otp.attempts = 0
                         /\ is_valid_code(otp, otp_code)
                         /\ ~is_expired(otp, now),
            created |-> vlog'.created]]

HistRevokeAll(user_id) ==
    hist' = [hist EXCEPT !.covered =
                @ \cup {token[2].jti : token \in {h \in held : h[2].sub = user_id}}]

HistValidate(token) ==
    LET row == get_by_jti(token[2].jti)
    IN hist' = [hist EXCEPT !.v =
           [covered |-> token[2].jti \in hist.covered,
            origin |-> token[2].jti[1],
            signed |-> token[3] = SecretKey,
            unexpired |-> now <= token[2].exp,
            access |-> token[2].token_type = "access",
            jti_ok |-> token[2].jti # NoId,
            found |-> row # NoToken,
            not_revoked |-> ~row.revoked,
            stored_unexpired |-> now <= row.expires_at,
            verifier_ok |-> row.token_hash = hash_token(token),
            sub_ok |-> row.user_id = token[2].sub,
            loggedout |-> token \in hist.out,
            jti |-> token[2].jti,
            sub |-> token[2].sub]]

\* The access tokens that refresh has returned: the id of each, with the
\* subject of the refresh token it was returned for.
HistRefresh(refresh_token) ==
    hist' = [hist EXCEPT !.minted =
                IF vref'.kind = "ok"
                THEN @ \cup {<<vref'.minted, refresh_token[2].sub>>}
                ELSE @,
                         !.after_logout = hist.out # {}]

\* The access tokens for which POST /api/auth/logout has returned
\* "Logged out successfully".
\* Of the last logout: the id of the token it was made with, and the ids of
\* the rows whose revoked flag it changed.
HistLogout(access_token_string) ==
    hist' = [hist EXCEPT
                !.out = @ \cup {access_token_string},
                !.presented = access_token_string[2].jti,
                !.flagged = {id \in DOMAIN auth_tokens :
                                auth_tokens'[id].revoked # auth_tokens[id].revoked}]

\* The ids of the OTP rows that the expiry sweep has deleted.
HistSweep ==
    hist' = [hist EXCEPT !.swept = @ \cup (DOMAIN otp_codes \ DOMAIN otp_codes')]

(***************************************************************************)
(* The expiry sweep of the OTP table, run by whoever schedules it.         *)
(***************************************************************************)
DeleteExpired ==
    /\ otp_codes' = delete_expired
    /\ HistSweep
    /\ UNCHANGED <<now, call, obs, seq, authVars, vref, entity, lo, envVars>>

(***************************************************************************)
(* The token repository used directly: a caller reads an entity, may       *)
(* revoke it, and saves it.                                                *)
(***************************************************************************)
NoEntity == NoToken

LoadToken(token_id) ==
    /\ token_id \in DOMAIN auth_tokens
    /\ entity' = get_token_by_id(token_id)
    /\ UNCHANGED <<authVars, vref, lo, hist>>

EntityRevoke ==
    /\ entity # NoEntity
    /\ ~entity.revoked
    /\ entity' = revoke(entity)
    /\ UNCHANGED <<authVars, vref, lo, hist>>

SaveToken ==
    /\ entity # NoEntity
    /\ auth_tokens' = save_token(auth_tokens, entity)
    /\ entity' = NoEntity
    /\ UNCHANGED <<sessions, held, vlog, vtok, vref, lo, hist>>

(***************************************************************************)
(* LogoutUseCase.execute, one repository call at a time.  Every call       *)
(* commits on its own; a call that fails raises out of the use case.       *)
(***************************************************************************)
\* What a logout request holds: its position, the id of the row it found,
\* the user of the presented token, the sessions it has still to visit, and
\* for the record the session store it started from, whether its revoke_token
\* committed, and the sessions it ended.
IdleLogout == [pc |-> "idle", token_id |-> NoId, user_id |-> NoId,
               sessions |-> {}, before |-> <<>>, committed |-> FALSE,
               ended |-> {}]

\* SessionRepository.get_active_sessions_for_user
get_active_sessions_for_user(user_id) ==
    {s \in DOMAIN sessions : sessions[s].user_id = user_id /\ sessions[s].active}

\* SessionRepository.end_session: UPDATE ... WHERE id = session_id.
end_session(session_id) ==
    [s \in DOMAIN sessions |->
        IF s = session_id
        THEN [sessions[s] EXCEPT !.active = FALSE, !.ended_at = now]
        ELSE sessions[s]]

(***************************************************************************)
(* The session repository used directly: a caller reads a Session entity,  *)
(* may touch it or end it, and saves it; or it ends a row, or all the rows *)
(* of a user, with one UPDATE.                                             *)
(***************************************************************************)
LoadSession(session_id) ==
    /\ session_id \in DOMAIN sessions
    /\ session_entity' = get_session_by_id(session_id)
    /\ UNCHANGED <<authVars, tokVars, settings, gen, login, rvk>>

SessionTouch ==
    /\ session_entity # NoSession
    /\ session_entity' = update_activity(session_entity)
    /\ UNCHANGED <<authVars, tokVars, settings, gen, login, rvk>>

SessionEnd ==
    /\ session_entity # NoSession
    /\ session_entity.active
    /\ session_entity' = Session_end_session(session_entity)
    /\ UNCHANGED <<authVars, tokVars, settings, gen, login, rvk>>

SaveSession ==
    /\ session_entity # NoSession
    /\ sessions' = save_session(session_entity)
    /\ session_entity' = NoSession
    /\ UNCHANGED <<auth_tokens, held, vlog, vtok, tokVars, settings, gen, login, rvk>>

EndSession(session_id) ==
    /\ sessions' = end_session(session_id)
    /\ UNCHANGED <<auth_tokens, held, vlog, vtok, tokVars, envVars>>

EndAllUserSessions(user_id) ==
    /\ sessions' = end_all_user_sessions(user_id)
    /\ UNCHANGED <<auth_tokens, held, vlog, vtok, tokVars, envVars>>

\* The test of the loop, taking every session of the user.
session_of_any_token(session, token_entity_id) == TRUE

\* The test of the loop: session.access_token_id == token_entity.id
session_of_token(session, token_entity_id) ==
    session.access_token_id = token_entity_id

\* Step 1, get_by_token_string.
LogoutFind(access_token_string) ==
    /\ lo.pc = "idle"
    /\ LET current_user == access_token_string[2]
           token_entity == get_by_token_string(access_token_string)
       IN lo' = [pc |-> IF token_entity # NoToken THEN "revoke" ELSE "done",
                 token_id |-> token_entity.id, user_id |-> current_user.sub,
                 sessions |-> {}, before |-> sessions, committed |-> FALSE,
                 ended |-> {}]
    /\ UNCHANGED <<authVars, vref, entity, hist>>

\* Step 1, revoke_token: it commits, or it rolls back and raises.
LogoutRevoke(ok) ==
    /\ lo.pc = "revoke"
    /\ IF ok
       THEN /\ auth_tokens' = revoke_token(lo.token_id)
            /\ lo' = [lo EXCEPT !.pc = "list", !.committed = TRUE]
       ELSE /\ UNCHANGED auth_tokens
            /\ lo' = [lo EXCEPT !.pc = "failed"]
    /\ UNCHANGED <<sessions, held, vlog, vtok, vref, entity, hist>>

\* Step 2, get_active_sessions_for_user.
LogoutList ==
    /\ lo.pc = "list"
    /\ lo' = [lo EXCEPT !.pc = "loop",
                        !.sessions = get_active_sessions_for_user(lo.user_id)]
    /\ UNCHANGED <<authVars, vref, entity, hist>>

\* Step 2, one turn of the loop: end_session on a session of the token, which
\* commits or raises; nothing on another session.
LogoutEnd(ok) ==
    /\ lo.pc = "loop"
    /\ \E s \in lo.sessions :
          IF session_of_token(sessions[s], lo.token_id)
          THEN IF ok
               THEN /\ sessions' = end_session(s)
                    /\ lo' = [lo EXCEPT !.sessions = @ \ {s},
                                        !.ended = @ \cup {s}]
               ELSE /\ UNCHANGED sessions
                    /\ lo' = [lo EXCEPT !.pc = "failed"]
          ELSE /\ UNCHANGED sessions
               /\ lo' = [lo EXCEPT !.sessions = @ \ {s}]
    /\ UNCHANGED <<auth_tokens, held, vlog, vtok, vref, entity, hist>>

\* The loop is over: the use case returns its message.
LogoutReturn ==
    /\ lo.pc = "loop"
    /\ lo.sessions = {}
    /\ lo' = [lo EXCEPT !.pc = "done"]
    /\ UNCHANGED <<authVars, vref, entity, hist>>

\* The request is answered; the next one may start.
LogoutAnswered ==
    /\ lo.pc \in {"done", "failed"}
    /\ lo' = IdleLogout
    /\ UNCHANGED <<authVars, vref, entity, hist>>


Tick ==
    /\ now < MaxTime
    /\ now' = now + 1
    /\ UNCHANGED <<otpVars, authVars, tokVars, envVars>>

vars == <<now, otpVars, authVars, tokVars, envVars>>

Init ==
    /\ now = 0
    /\ otp_codes = <<>>
    /\ call = [c \in Calls |-> IdleCall]
    /\ obs = [call |-> [c \in Calls |-> NoObsCall], id |-> [i \in OtpIds |-> NoObsId]]
    /\ seq = [call |-> [c \in Calls |-> NoSeqCall], id |-> [i \in OtpIds |-> NoSeqId]]
    /\ auth_tokens = <<>>
    /\ sessions = <<>>
    /\ held = {}
    /\ vlog = NoLogin
    /\ vtok = NoValidation
    /\ vref = NoRefresh
    /\ entity = NoEntity
    /\ lo = IdleLogout
    /\ hist = NoHist
    /\ settings = DefaultSettings
    /\ gen = NoGenerated
    /\ login = NoLoginInit
    /\ rvk = NoRevoke
    /\ session_entity = NoSession

(***************************************************************************)
(* The OTP service under concurrent requests.                              *)
(***************************************************************************)
Next ==
    \/ Tick
    \/ \E u \in UserIds, code \in Codes : Generate(u, code)
    \/ \E c \in Calls, id \in OtpIds, code \in Codes :
          ValidateFetch(c, id, code) /\ ObsFetch(c, id) /\ UNCHANGED <<seq, authVars, tokVars, envVars>>
    \/ \E c \in Calls : ValidateDecide(c) /\ ObsDecide(c) /\ UNCHANGED <<seq, authVars, tokVars, envVars>>

Spec == Init /\ [][Next]_vars

(***************************************************************************)
(* The OTP service with the expiry sweep running beside generate and       *)
(* validate requests.  An id that was swept is not drawn again.            *)
(***************************************************************************)
NextSweep ==
    \/ Tick
    \/ \E u \in UserIds, code \in Codes :
          /\ GenerateOTP({i \in 1..MaxOtps : Uuid("otp", i) \notin hist.swept},
                         u, code)
          /\ UNCHANGED <<now, call, obs, seq, authVars, tokVars, settings, login,
                         rvk, session_entity>>
    \/ \E c \in Calls, id \in OtpIds, code \in Codes :
          ValidateFetch(c, id, code) /\ UNCHANGED <<obs, seq, authVars, tokVars, envVars>>
    \/ \E c \in Calls :
          ValidateDecide(c) /\ UNCHANGED <<obs, seq, authVars, tokVars, envVars>>
    \/ DeleteExpired

SpecSweep == Init /\ [][NextSweep]_vars

(***************************************************************************)
(* The OTP service with one validate request at a time.                    *)
(***************************************************************************)
NextSeq ==
    \/ Tick
    \/ \E u \in UserIds, code \in Codes : Generate(u, code)
    \/ \E c \in Calls, id \in OtpIds, code \in Codes :
          /\ \A d \in Calls : ~InFlight(d)
          /\ ValidateFetch(c, id, code) /\ SeqFetch(c, id, code) /\ UNCHANGED <<obs, authVars, tokVars, envVars>>
    \/ \E c \in Calls : ValidateDecide(c) /\ SeqDecide(c) /\ UNCHANGED <<obs, authVars, tokVars, envVars>>

SpecSeq == Init /\ [][NextSeq]_vars

(***************************************************************************)
(* The auth service: verify-login, validate-token, logout and revocation,  *)
(* next to an OTP service that issues codes.                               *)
(***************************************************************************)
NextAuth ==
    \/ Tick
    \/ \E u \in UserIds, code \in Codes : Generate(u, code)
    \/ \E email \in Emails, code \in Codes, reachable \in BOOLEAN,
          status_code \in {200, 400, 404, 429} :
          VerifyLogin(email, code, reachable, status_code) /\ UNCHANGED <<now, envVars, otpVars, vtok, tokVars>>
    \/ \E token \in Presentable : ValidateToken(token) /\ UNCHANGED <<now, envVars, otpVars, tokVars>>
    \/ \E token \in held : Logout(token) /\ UNCHANGED <<now, envVars, otpVars, tokVars>>
    \/ \E u \in UserIds : RevokeUserTokens(u) /\ UNCHANGED <<now, envVars, otpVars, tokVars>>

SpecAuth == Init /\ [][NextAuth]_vars

(***************************************************************************)
(* The token requests on the store a login left behind.  LoginUseCase      *)
(* returns tokens and persists nothing; VerifyLoginUseCase persists the    *)
(* token string as the verifier of the row; the AuthToken that             *)
(* RefreshTokenUseCase constructs persists its sha256.  Init draws one of  *)
(* the three for the tokens of one login.                                  *)
(***************************************************************************)
Verifier(persisted, token) ==
    IF persisted = "sha256" THEN hash_token(token) ELSE token

InitTokens ==
    /\ now = 0
    /\ otp_codes = <<>>
    /\ call = [c \in Calls |-> IdleCall]
    /\ obs = [call |-> [c \in Calls |-> NoObsCall], id |-> [i \in OtpIds |-> NoObsId]]
    /\ seq = [call |-> [c \in Calls |-> NoSeqCall], id |-> [i \in OtpIds |-> NoSeqId]]
    /\ \E user_id \in UserIds, persisted \in {"none", "token_string", "sha256"} :
          LET access == create_access_token(user_id, Profile(user_id).role,
                                            Profile(user_id).permissions,
                                            Profile(user_id).team_name,
                                            AccessTtl, Uuid("access", 1))
              refresh == create_refresh_token(user_id, RefreshTtl, Uuid("refresh", 1))
              access_token_entity ==
                  AuthToken(access.token_id, user_id, "access",
                            Verifier(persisted, access.token), access.expires_at)
              refresh_token_entity ==
                  AuthToken(refresh.token_id, user_id, "refresh",
                            Verifier(persisted, refresh.token), refresh.expires_at)
          IN /\ held = {access.token, refresh.token}
             /\ auth_tokens = IF persisted = "none" THEN <<>>
                              ELSE (access.token_id :> access_token_entity)
                                   @@ (refresh.token_id :> refresh_token_entity)
             /\ sessions = IF persisted = "none" THEN <<>>
                           ELSE (Uuid("session", 1) :>
                                   Session(Uuid("session", 1), user_id,
                                           access.token_id, access.expires_at))
    /\ vlog = NoLogin
    /\ vtok = NoValidation
    /\ vref = NoRefresh
    /\ entity = NoEntity
    /\ lo = IdleLogout
    /\ hist = NoHist
    /\ settings = DefaultSettings
    /\ gen = NoGenerated
    /\ login = NoLoginInit
    /\ rvk = NoRevoke
    /\ session_entity = NoSession

NextTokens ==
    \/ Tick
    \/ \E token \in Presentable :
          ValidateToken(token) /\ HistValidate(token)
          /\ UNCHANGED <<now, envVars, otpVars, vref, entity, lo>>
    \/ \E token \in Presentable :
          Refresh(token) /\ HistRefresh(token)
          /\ UNCHANGED <<now, envVars, otpVars, entity, lo>>
    \/ \E u \in UserIds :
          RevokeUserTokens(u) /\ HistRevokeAll(u)
          /\ UNCHANGED <<now, envVars, otpVars, vref, entity, lo>>

SpecTokens == InitTokens /\ [][NextTokens]_vars

(***************************************************************************)
(* Refresh with a users service that may fail: each refresh request gets   *)
(* the profile, a 404, or no usable answer.                                *)
(***************************************************************************)
NextProfile ==
    \/ Tick
    \/ \E token \in Presentable :
          ValidateToken(token) /\ HistValidate(token)
          /\ UNCHANGED <<now, envVars, otpVars, vref, entity, lo>>
    \/ \E token \in Presentable, fate \in Fates :
          RefreshWith(token, fate) /\ HistRefresh(token)
          /\ UNCHANGED <<now, envVars, otpVars, entity, lo>>

SpecProfile == InitTokens /\ [][NextProfile]_vars

(***************************************************************************)
(* Verify-login requests whose saves may fail, one request at a time, next *)
(* to an OTP service that issues codes.                                    *)
(***************************************************************************)
NextVerify ==
    \/ Tick
    \/ \E u \in UserIds, code \in Codes : Generate(u, code)
    \/ \E email \in Emails, code \in Codes, reachable \in BOOLEAN,
          status_code \in {200, 400, 404, 429} :
          VerifyBegin(1..MaxVerified, email, code, reachable, status_code)
          /\ UNCHANGED <<now, envVars, otpVars, vtok, tokVars>>
    \/ \E ok \in BOOLEAN :
          VerifySaveAccess(ok) /\ UNCHANGED <<now, envVars, otpVars, vtok, tokVars>>
    \/ \E ok \in BOOLEAN :
          VerifySaveRefresh(ok) /\ UNCHANGED <<now, envVars, otpVars, vtok, tokVars>>
    \/ \E ok \in BOOLEAN :
          VerifySaveSession(ok) /\ UNCHANGED <<now, envVars, otpVars, vtok, tokVars>>

SpecVerify == Init /\ [][NextVerify]_vars

(***************************************************************************)
(* A refresh request and revoke_user_tokens calls in any interleaving.     *)
(***************************************************************************)
NextRace ==
    \/ Tick
    \/ \E token \in Presentable :
          RefreshCheck(token) /\ UNCHANGED <<now, envVars, otpVars, entity, lo, hist>>
    \/ \E fate \in Fates :
          RefreshFinish(fate) /\ UNCHANGED <<now, envVars, otpVars, entity, lo, hist>>
    \/ \E u \in UserIds :
          RevokeUserTokens(u)
          /\ UNCHANGED <<now, envVars, otpVars, vref, entity, lo, hist>>

SpecRace == InitTokens /\ [][NextRace]_vars

(***************************************************************************)
(* Signing out on the store a login left behind: logout and                *)
(* revoke_user_tokens next to validate-token and refresh.                  *)
(***************************************************************************)
NextSignOut ==
    \/ Tick
    \/ \E token \in Presentable :
          ValidateToken(token) /\ HistValidate(token)
          /\ UNCHANGED <<now, envVars, otpVars, vref, entity, lo>>
    \/ \E token \in Presentable :
          Refresh(token) /\ HistRefresh(token)
          /\ UNCHANGED <<now, envVars, otpVars, entity, lo>>
    \/ \E token \in {h \in held : is_access_token(h[2])} :
          Logout(token) /\ HistLogout(token)
          /\ UNCHANGED <<now, envVars, otpVars, vref, entity, lo>>
    \/ \E u \in UserIds :
          RevokeUserTokens(u)
          /\ UNCHANGED <<now, envVars, otpVars, vref, entity, lo, hist>>

SpecSignOut == InitTokens /\ [][NextSignOut]_vars

(***************************************************************************)
(* The issuing of codes: generate requests made to the OTP service, any    *)
(* number of times for a user, and login requests on active accounts with  *)
(* JANO answering, under either setting of DEV_SHOW_OTP_IN_RESPONSE.       *)
(***************************************************************************)
InitGen ==
    /\ now = 0
    /\ otp_codes = <<>>
    /\ call = [c \in Calls |-> IdleCall]
    /\ obs = [call |-> [c \in Calls |-> NoObsCall], id |-> [i \in OtpIds |-> NoObsId]]
    /\ seq = [call |-> [c \in Calls |-> NoSeqCall], id |-> [i \in OtpIds |-> NoSeqId]]
    /\ auth_tokens = <<>>
    /\ sessions = <<>>
    /\ held = {}
    /\ vlog = NoLogin
    /\ vtok = NoValidation
    /\ vref = NoRefresh
    /\ entity = NoEntity
    /\ lo = IdleLogout
    /\ hist = NoHist
    /\ settings \in {[DEV_SHOW_OTP_IN_RESPONSE |-> flag] : flag \in BOOLEAN}
    /\ gen = NoGenerated
    /\ login = NoLoginInit
    /\ rvk = NoRevoke
    /\ session_entity = NoSession

NextGen ==
    \/ Tick
    \/ \E u \in UserIds, code \in Codes :
          /\ GenerateOTP(1..MaxGenerated, u, code)
          /\ UNCHANGED <<now, call, obs, seq, authVars, tokVars, settings, login, rvk, session_entity>>
    \/ \E email \in Emails, password_ok \in BOOLEAN, jano \in {"allow", "block"},
          otp_code \in Codes :
          LoginInit(email, password_ok, "active", jano, otp_code)

SpecGen == InitGen /\ [][NextGen]_vars

(***************************************************************************)
(* Login requests alone, with every account status and every fate of the   *)
(* call to JANO.                                                           *)
(***************************************************************************)
NextCred ==
    \/ Tick
    \/ \E email \in Emails, password_ok \in BOOLEAN, status \in AccountStatuses,
          jano \in JanoReplies, otp_code \in Codes :
          LoginInit(email, password_ok, status, jano, otp_code)

SpecCred == Init /\ [][NextCred]_vars

(***************************************************************************)
(* The login flow end to end: login, verify-login, validate-token, for     *)
(* active accounts and with JANO allowing.                                 *)
(***************************************************************************)
NextLogin ==
    \/ Tick
    \/ \E email \in Emails, password_ok \in BOOLEAN, otp_code \in Codes :
          LoginInit(email, password_ok, "active", "allow", otp_code)
    \/ \E email \in Emails, code \in Codes, reachable \in BOOLEAN,
          status_code \in {200, 400, 404, 429} :
          VerifyLogin(email, code, reachable, status_code) /\ HistLogin(email, code)
          /\ UNCHANGED <<now, envVars, otpVars, vtok, vref, entity, lo>>
    \/ \E token \in Presentable :
          ValidateToken(token) /\ HistValidate(token)
          /\ UNCHANGED <<now, envVars, otpVars, vref, entity, lo>>

SpecLogin == Init /\ [][NextLogin]_vars

(***************************************************************************)
(* Logout on the store two verify-login requests left behind, for the same *)
(* user or for two users: per login an access and a refresh row with the   *)
(* token string as verifier, and a session bound to the access token.      *)
(* Time stands still: no step of logout reads the clock to decide.         *)
(***************************************************************************)
LoggedIn(k, user_id) ==
    LET access == create_access_token(user_id, Profile(user_id).role,
                                      Profile(user_id).permissions,
                                      Profile(user_id).team_name,
                                      AccessTtl, Uuid("access", k))
        refresh == create_refresh_token(user_id, RefreshTtl, Uuid("refresh", k))
    IN [held |-> {access.token, refresh.token},
        auth_tokens |->
            (access.token_id :>
                AuthToken(access.token_id, user_id, "access", access.token,
                          access.expires_at))
            @@ (refresh.token_id :>
                AuthToken(refresh.token_id, user_id, "refresh", refresh.token,
                          refresh.expires_at)),
        sessions |->
            (Uuid("session", k) :>
                Session(Uuid("session", k), user_id, access.token_id,
                        access.expires_at))]

InitLogout ==
    /\ now = 0
    /\ otp_codes = <<>>
    /\ call = [c \in Calls |-> IdleCall]
    /\ obs = [call |-> [c \in Calls |-> NoObsCall], id |-> [i \in OtpIds |-> NoObsId]]
    /\ seq = [call |-> [c \in Calls |-> NoSeqCall], id |-> [i \in OtpIds |-> NoSeqId]]
    /\ \E u1 \in UserIds, u2 \in UserIds :
          /\ held = LoggedIn(1, u1).held \cup LoggedIn(2, u2).held
          /\ auth_tokens = LoggedIn(1, u1).auth_tokens @@ LoggedIn(2, u2).auth_tokens
          /\ sessions = LoggedIn(1, u1).sessions @@ LoggedIn(2, u2).sessions
    /\ vlog = NoLogin
    /\ vtok = NoValidation
    /\ vref = NoRefresh
    /\ entity = NoEntity
    /\ lo = IdleLogout
    /\ hist = NoHist
    /\ settings = DefaultSettings
    /\ gen = NoGenerated
    /\ login = NoLoginInit
    /\ rvk = NoRevoke
    /\ session_entity = NoSession

NextLogout ==
    \/ \E token \in held : LogoutFind(token) /\ UNCHANGED <<now, envVars, otpVars>>
    \/ \E ok \in BOOLEAN : LogoutRevoke(ok) /\ UNCHANGED <<now, envVars, otpVars>>
    \/ LogoutList /\ UNCHANGED <<now, envVars, otpVars>>
    \/ \E ok \in BOOLEAN : LogoutEnd(ok) /\ UNCHANGED <<now, envVars, otpVars>>
    \/ LogoutReturn /\ UNCHANGED <<now, envVars, otpVars>>
    \/ LogoutAnswered /\ UNCHANGED <<now, envVars, otpVars>>
    \/ \E u \in UserIds : RevokeUserTokens(u) /\ UNCHANGED <<now, envVars, otpVars, tokVars>>

SpecLogout == InitLogout /\ [][NextLogout]_vars

(***************************************************************************)
(* revoke_token called at any time, any number of times, with the id of a  *)
(* row or with an id that no row has, on the drawn token stores.           *)
(***************************************************************************)
NextRevoke ==
    \/ Tick
    \/ \E id \in DOMAIN auth_tokens \cup {Uuid("access", 0)} :
          RevokeToken(id) /\ UNCHANGED <<now, settings, gen, login, session_entity, otpVars>>

SpecRevoke == InitTokens /\ [][NextRevoke]_vars

(***************************************************************************)
(* The operations that write the session store: verify-login, which may    *)
(* succeed more than once, logout, and the repository's calls.  Time       *)
(* stands still: none of them reads the clock to decide.                   *)
(***************************************************************************)
NextSessions ==
    \/ \E email \in Emails, code \in Codes, reachable \in BOOLEAN,
          status_code \in {200, 400, 404, 429} :
          VerifyLoginWith(1..MaxVerified, email, code, reachable, status_code)
          /\ UNCHANGED <<now, envVars, otpVars, vtok, tokVars>>
    \/ \E token \in held : Logout(token) /\ UNCHANGED <<now, envVars, otpVars, tokVars>>
    \/ \E s \in DOMAIN sessions : LoadSession(s) /\ UNCHANGED <<now, otpVars>>
    \/ SessionTouch /\ UNCHANGED <<now, otpVars>>
    \/ SessionEnd /\ UNCHANGED <<now, otpVars>>
    \/ SaveSession /\ UNCHANGED <<now, otpVars>>
    \/ \E s \in DOMAIN sessions : EndSession(s) /\ UNCHANGED <<now, otpVars>>
    \/ \E u \in UserIds : EndAllUserSessions(u) /\ UNCHANGED <<now, otpVars>>

SpecSessions == Init /\ [][NextSessions]_vars

(***************************************************************************)
(* The operations that write the token store: verify-login, refresh,       *)
(* logout, revoke_user_tokens, and the repository's save of an entity.     *)
(* Time stands still: no step of these reads the clock to decide.          *)
(***************************************************************************)
NextRepo ==
    \/ \E email \in Emails, code \in Codes, reachable \in BOOLEAN,
          status_code \in {200, 400, 404, 429} :
          VerifyLogin(email, code, reachable, status_code)
          /\ UNCHANGED <<now, envVars, otpVars, vtok, tokVars>>
    \/ \E token \in Presentable :
          Refresh(token) /\ HistRefresh(token)
          /\ UNCHANGED <<now, envVars, otpVars, entity, lo>>
    \/ \E token \in held : Logout(token) /\ UNCHANGED <<now, envVars, otpVars, tokVars>>
    \/ \E u \in UserIds : RevokeUserTokens(u) /\ UNCHANGED <<now, envVars, otpVars, tokVars>>
    \/ \E id \in DOMAIN auth_tokens : LoadToken(id) /\ UNCHANGED <<now, envVars, otpVars>>
    \/ EntityRevoke /\ UNCHANGED <<now, envVars, otpVars>>
    \/ SaveToken /\ UNCHANGED <<now, envVars, otpVars>>

SpecRepo == Init /\ [][NextRepo]_vars

(***************************************************************************)
(* Claims about the OTP service.                                           *)
(***************************************************************************)
Done(c) == call[c].pc = "done"
Kind(c) == call[c].response.kind

\* C2: for every OTP row, in every state reachable by generate and validate
\* requests, interleaved or not, the stored attempts is at most max_attempts.
C2_AttemptsWithinMax ==
    \A id \in DOMAIN otp_codes : otp_codes[id].attempts <= otp_codes[id].max_attempts

\* C2 witness: requests overlapped on an id, more requests than max_attempts
\* reached the comparison, and the stored counter stands at max_attempts.
C2_Witness ==
    \E id \in DOMAIN otp_codes :
        /\ otp_codes[id].attempts = otp_codes[id].max_attempts
        /\ obs.id[id].compared > otp_codes[id].max_attempts
        /\ \E c \in Calls : Done(c) /\ call[c].otp_id = id /\ obs.call[c].peers # {}

\* C3, as claimed: on one OTP id at most max_attempts validate requests reach
\* the comparison of the presented code with the stored code.
C3_ComparisonsWithinMax ==
    \A id \in DOMAIN otp_codes : obs.id[id].compared <= otp_codes[id].max_attempts

\* C4, as claimed: a validate request made after some request on the same id
\* has returned valid=true fails with AlreadyUsed.
C4_AlreadyUsedAfterValid ==
    \A c \in Calls : (Done(c) /\ obs.call[c].afterValid) => Kind(c) = "AlreadyUsed"

\* C5, as claimed: of the validate requests on one id that are in flight
\* together, at most one returns valid=true.
C5_OneValidAmongConcurrent ==
    \A c \in Calls : \A d \in obs.call[c].peers :
        ~(Done(c) /\ Done(d) /\ Kind(c) = "Valid" /\ Kind(d) = "Valid")

\* C6, as claimed: a validate request made after expires_at on an OTP never
\* validated fails with Expired and leaves the stored status expired.
C6_ExpiredIsStored ==
    \A c \in Calls :
        (Done(c) /\ obs.call[c].timing = "after" /\ obs.call[c].status_ok)
            => /\ Kind(c) = "Expired"
               /\ otp_codes[call[c].otp_id].status = "expired"

\* C7, as claimed: once the stored status of an OTP row is validated or
\* expired, no step changes it.
C7_StatusMonotonic ==
    [][\A id \in DOMAIN otp_codes :
          otp_codes[id].status \in {"validated", "expired"}
              => otp_codes'[id].status = otp_codes[id].status]_vars

C9_AttemptsExceededAfterN ==
    \A c \in Calls :
        (Done(c) /\ seq.call[c].priorWrong /\ seq.call[c].unexpired)
            => LET row == otp_codes[call[c].otp_id]
               IN /\ (seq.call[c].ord = row.max_attempts
                        /\ call[c].otp_code # row.otp_code_hash)
                         => Kind(c) = "AttemptsExceeded"
                  /\ seq.call[c].ord > row.max_attempts
                         => Kind(c) = "AttemptsExceeded"

\* C9 witness: after n wrong codes a further request with the correct code,
\* before expiry, was answered AttemptsExceeded.
C9_Witness ==
    \E c \in Calls :
        /\ Done(c) /\ seq.call[c].priorWrong /\ seq.call[c].unexpired
        /\ seq.call[c].ord > otp_codes[call[c].otp_id].max_attempts
        /\ call[c].otp_code = otp_codes[call[c].otp_id].otp_code_hash
        /\ Kind(c) = "AttemptsExceeded"

(***************************************************************************)
(* Claims about the auth service.                                          *)
(***************************************************************************)
\* C1, as claimed: verify-login creates AuthToken and Session records and
\* returns tokens only if the validate call to the OTP service returned
\* valid=true.
C1_TokensOnlyIfOtpValid ==
    (vlog.outcome = "LoginResponse" \/ vlog.created) => (vlog.replied /\ vlog.valid)

\* C10: a token whose AuthToken row has revoked=true is never accepted.  A
\* validate-token request that read a revoked row did not succeed; and for
\* every revoked row in the store, is_valid() is false and validation of any
\* presentable token against that row fails, whichever verifier the row
\* holds and wherever now stands against the expiries.
C10_RevokedNeverAccepted ==
    /\ vtok.revoked => vtok.kind \in {"Invalid", "Expired"}
    /\ \A id \in DOMAIN auth_tokens :
          auth_tokens[id].revoked =>
              /\ ~AuthToken_is_valid(auth_tokens[id], now)
              /\ \A token \in Presentable :
                 \A verifier \in {auth_tokens[id].token_hash, hash_token(token)} :
                    ValidateTokenSteps(token,
                        [auth_tokens[id] EXCEPT !.token_hash = verifier], now).kind # "ok"

\* C10 witness: an access token whose row is revoked was presented while its
\* embedded and its stored expiry were still ahead, and was refused as
\* revoked.
C10_Witness ==
    /\ vtok.kind = "Invalid" /\ vtok.reason = "Token has been revoked"
    /\ vtok.revoked /\ vtok.live
    /\ \E id \in DOMAIN auth_tokens :
          /\ auth_tokens[id].revoked /\ auth_tokens[id].token_type = "access"
          /\ ~AuthToken_is_expired(auth_tokens[id], now)
          /\ ~AuthToken_is_valid(auth_tokens[id], now)

C12_RevokedMonotonic ==
    [][\A id \in DOMAIN auth_tokens :
          auth_tokens[id].revoked => auth_tokens'[id].revoked]_vars

C16_RefreshRefused ==
    (vref.kind # "none" /\ vref.decoded)
        => /\ vref.token_type = "access"
                 => vref.kind = "InvalidRefreshTokenException"
           /\ (vref.token_type = "refresh"
                 /\ vref.row \in {"revoked", "absent", "mismatch"})
                 => vref.kind = "InvalidRefreshTokenException"

\* C16 witness: a refresh token that decodes, whose row has been revoked, is
\* refused for that.
C16_Witness ==
    /\ vref.decoded /\ vref.token_type = "refresh" /\ vref.row = "revoked"
    /\ vref.kind = "InvalidRefreshTokenException"
    /\ vref.reason = "Refresh token has been revoked"

\* C17: a refresh request that fails, for whatever reason, issues no token
\* and leaves the token store and the session store as they were.
C17_FailedRefreshWritesNothing ==
    [][(vref' # vref /\ vref'.kind # "ok")
          => /\ auth_tokens' = auth_tokens
             /\ sessions' = sessions
             /\ held' = held
             /\ vref'.minted = NoId]_vars

\* C17 witness: a refresh presented with an access token that decodes, on a
\* store that holds the token's row, refused without a write.
C17_Witness ==
    /\ vref.decoded /\ vref.token_type = "access" /\ vref.row # "absent"
    /\ vref.kind = "InvalidRefreshTokenException"
    /\ ~vref.wrote /\ vref.minted = NoId

\* C14: a logout that has revoked access token t and returned has set
\* active=false on every session whose access_token_id is t's id, and has
\* left every other session, of the same user or of another, as it was.
C14_EndsSessionsOfTokenOnly ==
    (lo.pc = "done" /\ lo.committed)
        => \A s \in DOMAIN sessions :
              IF sessions[s].access_token_id = lo.token_id
              THEN ~sessions[s].active
              ELSE sessions[s] = lo.before[s]

\* C14 witness: a logout returned after ending the session of its token,
\* while the same user's session on another token is still active.
C14_Witness ==
    /\ lo.pc = "done" /\ lo.committed /\ lo.ended # {}
    /\ \E s \in DOMAIN sessions :
          /\ sessions[s].user_id = lo.user_id
          /\ sessions[s].access_token_id # lo.token_id
          /\ sessions[s].active

\* C15: in logout the revocation is committed before any session is ended:
\* a session that has been ended is bound to a revoked token, and a logout
\* that failed after its revoke_token leaves the token revoked.
C15_RevokedBeforeSessionEnd ==
    /\ \A s \in DOMAIN sessions :
          ~sessions[s].active
              => get_token_by_id(sessions[s].access_token_id).revoked
    /\ (lo.pc \in {"list", "loop", "failed", "done"} /\ lo.committed)
          => get_token_by_id(lo.token_id).revoked

\* C15 witness: end_session failed after the revoke: the token is revoked
\* and its session is still active.
C15_Witness ==
    /\ lo.pc = "failed" /\ lo.committed
    /\ get_token_by_id(lo.token_id).revoked
    /\ \E s \in DOMAIN sessions :
          sessions[s].access_token_id = lo.token_id /\ sessions[s].active

\* C18, as claimed: a verify-login made for a user whose login generated an
\* OTP, with the correct code, within expiry and as first attempt, issues
\* the tokens and the session, and validate-token on the returned access
\* token, while it is unexpired, succeeds for that user.
C18_LoginThenValidate ==
    hist.login.scenario
        => /\ hist.login.created
           /\ (/\ hist.v.origin = "access" /\ hist.v.access
               /\ hist.v.signed /\ hist.v.unexpired /\ hist.v.found)
                 => (vtok.kind = "ok" /\ hist.v.sub_ok)

\* C19, as claimed: the user of every AuthToken row and of every session
\* that verify-login created is the owning user of an OTP that was
\* validated.
C19_SubjectIsOtpOwner ==
    \A user_id \in {auth_tokens[id].user_id : id \in DOMAIN auth_tokens}
                   \cup {sessions[s].user_id : s \in DOMAIN sessions} :
       \E otp_id \in DOMAIN otp_codes :
          /\ get_by_id(otp_id).status = "validated"
          /\ get_by_id(otp_id).user_id = user_id

\* C20, as claimed: a verify-login whose OTP validation failed returns an
\* error that names the reason the OTP service gave.
C20_SpecificOtpError ==
    (vlog.replied /\ ~vlog.valid)
        => vlog.outcome \in {"OTPExpiredException", "OTPMaxAttemptsExceededException",
                             "OTPInvalidCodeException", "OTPNotFoundException",
                             "OTPAlreadyUsedException"}

\* C21, as claimed: with DEV_SHOW_OTP_IN_RESPONSE off, no response of
\* generate and no response of login carries the code.
C21_CodeOnlyInDevelopmentMode ==
    ~settings.DEV_SHOW_OTP_IN_RESPONSE
        => (gen.otp_code = NoCode /\ login.otp_code = NoCode)

\* C22: login fails with RateLimited only when JANO replied and signalled
\* block; when the call to JANO times out, cannot connect or fails in any
\* other way, login goes on to the credentials and ends as the same request
\* ends when JANO allows it: same outcome, message and details, and an OTP
\* generated in the one exactly if in the other.
C22_RateLimitedOnlyOnBlock ==
    /\ login.outcome = RateLimitExceededException.outcome => login.jano = "block"
    /\ login.jano \in {"timeout", "unreachable", "error"}
          => LET allowed == LoginOutcome(login.email, login.password_ok,
                                         login.status, "allow")
             IN /\ login.outcome = allowed.outcome
                /\ login.message = allowed.message
                /\ login.details = allowed.details
                /\ login.generated = (allowed.outcome = "LoginInitResponse")

\* C22 witness: the call to JANO timed out and the login went on to generate
\* an OTP for the user.
C22_Witness ==
    /\ login.jano = "timeout"
    /\ login.outcome = "LoginInitResponse"
    /\ login.generated
    /\ login.otp_id \in DOMAIN otp_codes

\* C23, as claimed: a login that JANO does not block, made with an unknown
\* email, with a wrong password or on a disabled account, ends in the one
\* InvalidCredentials outcome, with the same message and details whichever
\* of the three it was, and generates no OTP.
C23_InvalidCredentialsIdentical ==
    (/\ login.outcome # "none"
     /\ login.jano # "block"
     /\ \/ get_user_by_email(login.email) = NoUser
        \/ ~login.password_ok
        \/ login.status # "active")
        => /\ login.outcome = "InvalidCredentialsException"
           /\ login.message = "Invalid credentials"
           /\ login.details = "Invalid email or password"
           /\ ~login.generated

C25_RevokeIdempotent ==
    [][rvk' # rvk
          => LET id == rvk'.token_id
             IN IF id \notin DOMAIN auth_tokens
                THEN ~rvk'.returned /\ auth_tokens' = auth_tokens
                ELSE /\ auth_tokens'[id].revoked
                     /\ auth_tokens[id].revoked
                           => auth_tokens'[id] = auth_tokens[id]]_vars

\* C26: no two Session rows are bound to the same access token id, and each
\* verify-login that succeeds adds exactly one Session row, bound to the
\* access token that this verify-login issued, beside the rows there were.
C26_OneSessionPerAccessToken ==
    [][/\ \A s1 \in DOMAIN sessions', s2 \in DOMAIN sessions' :
             sessions'[s1].access_token_id = sessions'[s2].access_token_id
                 => s1 = s2
       /\ (vlog'.created /\ vlog'.issued \notin DOMAIN auth_tokens)
             => \E s \in DOMAIN sessions' \ DOMAIN sessions :
                   /\ DOMAIN sessions' = DOMAIN sessions \cup {s}
                   /\ sessions'[s].access_token_id = vlog'.issued
                   /\ sessions'[s].user_id = auth_tokens'[vlog'.issued].user_id
                   /\ auth_tokens'[vlog'.issued].token_type = "access"
                   /\ \A o \in DOMAIN sessions : sessions'[o] = sessions[o]]_vars

\* C26 witness: two verify-logins succeeded: two sessions, each bound to the
\* access token of its own login.
C26_Witness ==
    /\ vlog.created
    /\ \E s1 \in DOMAIN sessions, s2 \in DOMAIN sessions :
          /\ s1 # s2
          /\ sessions[s1].access_token_id # sessions[s2].access_token_id
          /\ sessions[s2].access_token_id = vlog.issued

\* C27, as claimed: a Session row that has been ended is not active after
\* any later step, be it a touch, another end, end_all_user_sessions, logout
\* or a save of the repository, and is_valid() is false of it.
C27_EndedStaysEnded ==
    [][\A s \in DOMAIN sessions :
          ~sessions[s].active
              => /\ ~sessions'[s].active
                 /\ ~Session_is_valid(sessions'[s], now')]_vars

\* C28: every generate creates one OTP row under an id that no row had, with
\* status pending and attempts 0, and leaves every row that existed, those
\* of the same user included, as it was.
C28_GenerateAddsOneRecord ==
    [][gen' # gen
          => /\ gen'.otp_id \notin DOMAIN otp_codes
             /\ DOMAIN otp_codes' = DOMAIN otp_codes \cup {gen'.otp_id}
             /\ otp_codes'[gen'.otp_id].status = "pending"
             /\ otp_codes'[gen'.otp_id].attempts = 0
             /\ \A id \in DOMAIN otp_codes : otp_codes'[id] = otp_codes[id]]_vars

\* C28 witness: a user holds two OTP rows from two generate calls, the
\* earlier one still pending, untried and unexpired.
C28_Witness ==
    \E id \in DOMAIN otp_codes :
       /\ id # gen.otp_id
       /\ gen.otp_id \in DOMAIN otp_codes
       /\ otp_codes[id].user_id = otp_codes[gen.otp_id].user_id
       /\ otp_codes[id].created_at < otp_codes[gen.otp_id].created_at
       /\ otp_codes[id].status = "pending"
       /\ otp_codes[id].attempts = 0
       /\ ~is_expired(get_by_id(id), now)

\* C29: validate checks NotFound, AlreadyUsed, Expired, AttemptsExceeded in
\* this order: no row gives NotFound; a validated OTP gives AlreadyUsed, past
\* its expiry too; an unvalidated OTP past its expiry gives Expired, out of
\* attempts too; AttemptsExceeded is left for the unexpired one.
C29_CheckOrder ==
    [][\A c \in Calls :
          /\ (call[c].pc \in {"idle", "done"} /\ call'[c].pc = "done"
              /\ call'[c] # call[c])
                => (call'[c].otp_id \notin DOMAIN otp_codes
                      /\ call'[c].response.kind = "NotFound")
          /\ (InFlight(c) /\ call'[c].pc = "done")
                => LET otp == call[c].otp
                       kind == call'[c].response.kind
                       validated == otp.status = "validated"
                       past == now > otp.expires_at
                       out == otp.attempts >= otp.max_attempts
                   IN /\ validated => kind = "AlreadyUsed"
                      /\ (~validated /\ past) => kind = "Expired"
                      /\ (~validated /\ ~past /\ out)
                            => (kind = "AttemptsExceeded"
                                /\ otp_codes' = otp_codes)]_vars

\* C29 witness: a request on an unvalidated OTP past its expiry and with no
\* attempt left got Expired.
C29_Witness ==
    \E c \in Calls :
       /\ Done(c) /\ Kind(c) = "Expired"
       /\ call[c].otp_id \in DOMAIN otp_codes
       /\ otp_codes[call[c].otp_id].attempts = otp_codes[call[c].otp_id].max_attempts
       /\ otp_codes[call[c].otp_id].status # "validated"
       /\ now > otp_codes[call[c].otp_id].expires_at

\* C30, as claimed: every validate request that passes the four checks
\* raises the stored attempts of its OTP by exactly one, whatever the code;
\* and a correct code presented while the stored attempts is max_attempts - 1
\* is accepted and leaves the row validated with attempts = max_attempts.
C30_EveryAttemptCounts ==
    [][\A c \in Calls :
          (InFlight(c) /\ call'[c].pc = "done" /\ ReachesCompare(c))
              => LET id == call[c].otp_id
                 IN /\ otp_codes'[id].attempts = otp_codes[id].attempts + 1
                    /\ (/\ call[c].otp_code = otp_codes[id].otp_code_hash
                        /\ otp_codes[id].attempts = otp_codes[id].max_attempts - 1)
                          => /\ call'[c].response.kind = "Valid"
                             /\ otp_codes'[id].status = "validated"
                             /\ otp_codes'[id].attempts = otp_codes[id].max_attempts]_vars

\* C31: a validate request that fails on NotFound, on AlreadyUsed or on the
\* AttemptsExceeded check before the comparison leaves the stored rows as
\* they were: attempts, status and validated_at are not written.
C31_FailedPrecheckWritesNothing ==
    [][\A c \in Calls :
          /\ (call[c].pc \in {"idle", "done"} /\ call'[c] # call[c]
              /\ call'[c].response.kind = "NotFound")
                => otp_codes' = otp_codes
          /\ (InFlight(c) /\ call'[c].pc = "done"
              /\ \/ call[c].otp.status = "validated"
                 \/ /\ now <= call[c].otp.expires_at
                    /\ call[c].otp.attempts >= call[c].otp.max_attempts)
                => /\ call'[c].response.kind \in {"AlreadyUsed", "AttemptsExceeded"}
                   /\ call'[c].response.attempts_remaining = Null
                   /\ otp_codes' = otp_codes]_vars

\* C31 witness: a request was refused by the AttemptsExceeded check on an
\* OTP whose row still stands at max_attempts, unvalidated.
C31_Witness ==
    \E c \in Calls :
       /\ Done(c) /\ Kind(c) = "AttemptsExceeded"
       /\ call[c].response.attempts_remaining = Null
       /\ otp_codes[call[c].otp_id].attempts = otp_codes[call[c].otp_id].max_attempts
       /\ otp_codes[call[c].otp_id].status = "pending"
       /\ otp_codes[call[c].otp_id].validated_at = Null

C33_ActiveSessionHasLiveToken ==
    \A session_id \in DOMAIN sessions :
       sessions[session_id].active
          => LET token_entity == get_token_by_id(sessions[session_id].access_token_id)
             IN token_entity # NoToken /\ ~token_entity.revoked

\* C34, as claimed: validate-token answers Expired only for a token whose
\* AuthToken row is not revoked; a token whose row is revoked is never
\* reported as Expired, whatever its embedded and its stored expiry.
C34_RevokedNeverReportedExpired ==
    (hist.v.found /\ ~hist.v.not_revoked) => vtok.kind # "Expired"

C37_SweepDeletesOnlyExpired ==
    [][/\ \A otp_id \in DOMAIN otp_codes \ DOMAIN otp_codes' :
             /\ otp_codes[otp_id].expires_at < now
             /\ is_expired(get_by_id(otp_id), now)
       /\ otp_codes' # otp_codes /\ call' = call
             => \A otp_id \in DOMAIN otp_codes' \cap DOMAIN otp_codes :
                   otp_codes'[otp_id] = otp_codes[otp_id]
       /\ \A c \in Calls :
             (call'[c] # call[c] /\ call'[c].pc = "done"
              /\ call'[c].otp_id \in hist.swept)
                => /\ call'[c].response.kind # "Valid"
                   /\ call[c].pc \in {"idle", "done"}
                         => call'[c].response.kind = "NotFound"]_vars

\* C37 witness: a row was swept after its expiry and a validate request made
\* on its id afterwards answered NotFound.
C37_Witness ==
    \E c \in Calls :
       /\ Done(c) /\ Kind(c) = "NotFound"
       /\ call[c].otp_id \in hist.swept
       /\ call[c].otp_id \notin DOMAIN otp_codes

\* C38, as claimed: logout changes the revoked flag of no row but the one of
\* the presented access token, and a refresh made after a logout with the
\* refresh token of the login, its row there and not revoked, succeeds.
C38_LogoutLeavesRefreshUsable ==
    /\ hist.flagged \subseteq {hist.presented}
    /\ (hist.after_logout /\ vref.decoded /\ vref.token_type = "refresh"
        /\ vref.row \in {"match", "mismatch"})
          => vref.kind = "ok"

\* C39, as claimed: a verify-login request writes its access token, its
\* refresh token and its session in that order, and what it wrote stays in
\* the store when a later save fails; by the time it writes, the OTP of its
\* user is marked validated, and stays so when the request fails part-way.
C39_OtpConsumedBeforeWrites ==
    /\ "refresh" \in vlog.wrote => "access" \in vlog.wrote
    /\ "session" \in vlog.wrote => "refresh" \in vlog.wrote
    /\ "access" \in vlog.wrote => vlog.access.token_id \in DOMAIN auth_tokens
    /\ "refresh" \in vlog.wrote => vlog.refresh.token_id \in DOMAIN auth_tokens
    /\ "session" \in vlog.wrote => Uuid("session", vlog.k) \in DOMAIN sessions
    /\ (vlog.pc \in {"save_access", "save_refresh", "save_session"}
        \/ vlog.wrote # {})
          => \E otp_id \in DOMAIN otp_codes :
                /\ otp_codes[otp_id].user_id = vlog.user_id
                /\ otp_codes[otp_id].status = "validated"

====
